---- MODULE Spec2Model ----
(***************************************************************************)
(* Drivers of the FPGA dot-product / logistic-regression accelerators:     *)
(*   - inference_dumb.h: 8-lane combinatorial unit, chunked engine and     *)
(*     affine predictor over uint32 operands;                              *)
(*   - software/drivers/dot_product_accel.c: Q16.16 chunked dot product    *)
(*     over doubles, hardware build and software fallback;                 *)
(*   - training/iris_lr_model.h: 64-lane unit with start/done handshake;   *)
(*   - inference_accel.h: scalar unit with ready/done status polling.      *)
(*                                                                         *)
(* TLC integers are 32-bit, so every quantity that may reach 2^31 is kept  *)
(* as a pair <<hi, lo>> standing for hi * 2^16 + lo with lo in 0..2^16-1   *)
(* (a 32-bit word is two 16-bit halves; hi carries the sign of a signed    *)
(* value).                                                                 *)
(***************************************************************************)
EXTENDS Integers, Sequences, FiniteSets, TLC

\* ------------------------------------------------------------------------
\* Machine arithmetic
\* ------------------------------------------------------------------------

Half == 2^16
Byte == 2^8

Norm(h, l) == <<h + (l \div Half), l % Half>>
FromInt(n) == Norm(0, n)
BigAdd(a, b) == Norm(a[1] + b[1], a[2] + b[2])
BigSub(a, b) == Norm(a[1] - b[1], a[2] - b[2])
BigLess(a, b) == a[1] < b[1] \/ (a[1] = b[1] /\ a[2] < b[2])
BigLeq(a, b) == a = b \/ BigLess(a, b)
BigZero == <<0, 0>>
ToInt(a) == a[1] * Half + a[2]

\* (uint32_t)x: the low 32 bits
Low32(a) == <<a[1] % Half, a[2]>>
\* (int32_t)w of a 32-bit word w, and its widening to 64 bits
SignExt32(w) == IF w[1] >= Half \div 2 THEN <<w[1] - Half, w[2]>> ELSE w
\* mutant of ZeroExt32: the word is widened as a signed value
WidenSigned(w) == SignExt32(w)
\* a 32-bit word widened without sign (uint32_t added to a uint64_t)
ZeroExt32(w) == Low32(w)
BigNeg(a) == Norm(-a[1], -a[2])
BigAbs(a) == IF a[1] < 0 THEN BigNeg(a) ELSE a
IsWord(w) == w[1] \in 0..(Half - 1) /\ w[2] \in 0..(Half - 1)

\* x * y for 16-bit x, y, one byte of y at a time
Mul16(x, y) ==
    LET p == x * (y \div Byte)
    IN  Norm(p \div Byte, (p % Byte) * Byte + x * (y % Byte))
Shl16(a) == <<a[1] * Half + a[2], 0>>
\* the full product of two words (the model's operands keep it below 2^47)
BigMul(a, b) ==
    LET hh == Mul16(a[1], b[1])
        cross == BigAdd(Mul16(a[1], b[2]), Mul16(a[2], b[1]))
        ll == Mul16(a[2], b[2])
    IN  BigAdd(BigAdd(IF hh = BigZero THEN BigZero ELSE Shl16(Shl16(hh)),
                      IF cross = BigZero THEN BigZero ELSE Shl16(cross)), ll)
\* the low 32 bits of the product of two words
Mul32Low(a, b) ==
    LET cross == BigAdd(Mul16(a[1], b[2]), Mul16(a[2], b[1]))
    IN  Low32(BigAdd(<<cross[2], 0>>, Mul16(a[2], b[2])))
\* a >> k for a >= 0
BigShr(a, k) ==
    IF k >= 16 THEN FromInt(a[1] \div (2^(k - 16)))
    ELSE <<a[1] \div (2^k), (a[1] % (2^k)) * (2^(16 - k)) + (a[2] \div (2^k))>>

\* ------------------------------------------------------------------------
\* State
\* ------------------------------------------------------------------------

VARIABLES
    driver,            \* the driver the firmware is built with
    lane_width,        \* lanes of the unit that build targets
    op,                \* the driver entry point the caller is in ("none": none)
    pc,                \* position inside it
    inputs,            \* caller's input array
    weights,           \* caller's weight array
    data_size,         \* element count the caller passes
    bias,              \* bias the caller passes to a predictor
    accumulator,       \* the uint64_t cell the caller passes by pointer
    local_accumulator, \* logistic_predict_large_dataset: local uint64_t
    chunks_processed,  \* logistic_process_chunks: local
    remaining_data,    \* logistic_process_chunks: local
    chunk_inputs,      \* operand arrays of the running logistic_compute_dot_product
    chunk_weights,
    cdp_return,        \* where the running per-chunk primitive returns to
    chunk_result,      \* value the last per-chunk primitive returned
    input_regs,        \* accelerator input lanes (32-bit words)
    weight_regs,       \* accelerator weight lanes
    total_result,      \* dot_product_accel_dot_product: local int64_t
    processed,         \* dot_product_accel_dot_product: local
    chunk_size,        \* dot_product_accel_compute_chunk: argument
    invocations,       \* per-chunk primitive calls made by the running entry point
    lanes_written,     \* lane registers written since the running primitive began
    ret,               \* what the last finished entry point returned
    first,             \* ret of the caller's first finished call
    appended,          \* zero elements the caller appended after its first call
    calls_left,        \* calls the caller may still make
    ctx_initialized,   \* logistic_ctx_t.initialized
    ctx_timeout_ms,    \* logistic_ctx_t.timeout_ms
    requested_timeout, \* the timeout the caller last asked for
    system_time_ms,    \* the static tick counter behind get_time_ms
    start_time,        \* logistic_wait_done / logistic_reset: local
    unit,              \* state of the handshake unit
    hw_mode,           \* whether the unit ever completes a computation
    bias_reg,          \* the unit's bias register
    output_reg,        \* the unit's result register
    start_writes,      \* writes of the start bit so far
    polls,             \* completion polls of the running wait
    time_reads,        \* get_time_ms readings of the running wait
    observed_done,     \* what the last completion poll read
    elapsed,           \* the last elapsed time the running wait computed
    result,            \* the caller's result cell
    hs_ret,            \* what the last finished handshake call returned
    elem_type,         \* element type of the caller's arrays
    absent,            \* the pointer arguments the caller passes as NULL
    scale_factor,      \* scale factor the caller passes to a float entry point
    read_extent,       \* elements from the start of its arrays the running call has read
    codec_value,       \* the real number a codec run converts
    codec_bits,        \* its fractional-bit count, or its scale factor
    codec_fixed,       \* what the encoder returned
    codec_decoded,     \* what the decoder returned
    callers,           \* how many logical callers share the accelerator
    running,           \* the caller the processor is executing
    suspended,         \* the saved context of the caller that is not running
    csr_accesses,      \* the register accesses of the last indexed accessor call
    stream_inputs,     \* the whole input vector of a caller that streams it in batches
    stream_weights,    \* the whole weight vector of that caller
    consumed,          \* elements of the stream handed to batches so far
    stream_chunks,     \* the chunk counts the batch calls have returned, added up
    stream_pending,    \* TRUE from a batch call until its return value is taken
    readstr_s,         \* static char s[64] of readstr
    readstr_ptr,       \* static int ptr of readstr
    readstr_ret,       \* what the last readstr call returned
    readstr_wrote,     \* the indexes of s the last readstr call stored to
    timer0_value,      \* the down-counter of timer0
    timer0_en,         \* timer0 enable
    start_ticks,       \* uint32_t start_ticks
    elapsed_ticks,     \* uint32_t elapsed_ticks
    ticks_passed,      \* clock ticks since start_ticks was read
    sw_pc,             \* position inside start_stopwatch
    sw_ret             \* the stopwatch function that ran last and what it returned

callerVars == <<lane_width, inputs, weights, data_size, first, appended, calls_left>>
accVars == <<accumulator, local_accumulator>>
logisticLocals == <<chunks_processed, remaining_data>>
cdpArgs == <<chunk_inputs, chunk_weights, cdp_return>>
regVars == <<input_regs, weight_regs>>
dpaLocals == <<total_result, processed>>
codecVars == <<codec_value, codec_bits, codec_fixed, codec_decoded>>
sharingVars == <<callers, running, suspended>>
streamVars == <<stream_inputs, stream_weights, consumed, stream_chunks, stream_pending>>
consoleVars == <<readstr_s, readstr_ptr, readstr_ret, readstr_wrote>>
timerVars == <<timer0_value, timer0_en, start_ticks, elapsed_ticks, ticks_passed, sw_pc, sw_ret>>
peripheralVars == <<consoleVars, timerVars>>
typeVars == <<elem_type, codecVars, sharingVars, csr_accesses, streamVars, peripheralVars>>
callArgs == <<typeVars, absent, scale_factor>>
argVars == <<callArgs, read_extent>>

engineVars == <<driver, op, pc, bias, callerVars, accVars, logisticLocals, cdpArgs,
                chunk_result, regVars, dpaLocals, chunk_size, invocations,
                lanes_written, ret, argVars>>

ctxVars == <<ctx_initialized, ctx_timeout_ms, requested_timeout>>
clockVars == <<system_time_ms, start_time>>
unitVars == <<unit, bias_reg, output_reg, start_writes>>
pollVars == <<polls, time_reads, observed_done, elapsed>>
hsVars == <<ctxVars, clockVars, unitVars, hw_mode, pollVars, result, hs_ret>>

\* everything of the chunked engines but the caller's position
engineData == <<bias, lane_width, inputs, weights, data_size, first, appended, accVars,
                logisticLocals, cdpArgs, chunk_result, dpaLocals, chunk_size,
                invocations, lanes_written, ret, argVars>>

vars == <<engineVars, hsVars>>

\* ------------------------------------------------------------------------
\* Program constants and bounds
\* ------------------------------------------------------------------------

LOGISTIC_INPUT_SIZE == 8
FIXED_POINT_FRACTIONAL_BITS == 16
\* DOT_PRODUCT_ACCEL_INPUT_SIZE of the two accelerator variants
LaneWidths == {8, 64}

MaxSize == 300      \* longest vector of the chunk-count runs
MaxLen == 24        \* longest vector of the value runs
MaxAppend == 9      \* most zero elements appended
MaxCalls == 2       \* calls per caller session
GridBits == 17      \* the callers' doubles are multiples of 2^-GridBits

Min(a, b) == IF a < b THEN a ELSE b
Abs(n) == IF n < 0 THEN -n ELSE n
NoCall == [fn |-> "none", build |-> "none", size |-> 0, code |-> 0, value |-> BigZero]

\* ------------------------------------------------------------------------
\* The combinatorial unit (hardware): RESULT reads the dot product of the
\* lanes as written, 32 bits wide
\* ------------------------------------------------------------------------

\* sum over lanes lo..hi of inputs * weights, every step kept to 32 bits
RECURSIVE LaneSum(_, _, _, _)
LaneSum(x, w, lo, hi) ==
    IF lo > hi THEN BigZero
    ELSE IF lo = hi THEN Mul32Low(x[lo], w[lo])
    ELSE LET mid == (lo + hi) \div 2
         IN  Low32(BigAdd(LaneSum(x, w, lo, mid), LaneSum(x, w, mid + 1, hi)))
ResultRegister == LaneSum(input_regs, weight_regs, 1, Len(input_regs))

\* ------------------------------------------------------------------------
\* inference_dumb.h: 8-lane driver over uint32_t operands
\* ------------------------------------------------------------------------

\* &a[from] read as n elements
Slice(a, from, n) == [i \in 1..n |-> a[from + i]]
\* mutant of PartialCopy: the unused lanes are not zeroed
PartialCopyUnpadded(a, from, r) ==
    [i \in 1..LOGISTIC_INPUT_SIZE |-> IF i <= r THEN a[from + i] ELSE FromInt(1)]
\* {0} of the element type: a uint32_t word, or 0.0f as a numerator
ZeroElement == IF elem_type = "float" THEN 0 ELSE BigZero
\* a local array of LOGISTIC_INPUT_SIZE zeros with the first r elements copied in
PartialCopy(a, from, r) ==
    [i \in 1..LOGISTIC_INPUT_SIZE |-> IF i <= r THEN a[from + i] ELSE ZeroElement]

\* the running call has read the first n elements of the caller's arrays
ReadUpTo(n) == read_extent' = IF n > read_extent THEN n ELSE read_extent

ProcessOps == {"process_chunks", "process_chunks_float"}
PredictOps == {"predict_large", "predict_large_float"}
InLogisticEngine == op \in ProcessOps \union PredictOps
\* the cell the accumulator pointer of logistic_process_chunks refers to
Pointee == IF op \in PredictOps THEN local_accumulator ELSE accumulator
Store(v) ==
    IF op \in PredictOps
    THEN local_accumulator' = v /\ UNCHANGED accumulator
    ELSE accumulator' = v /\ UNCHANGED local_accumulator

logistic_set_inputs_direct ==
    /\ pc = "cdp_set_inputs"
    /\ input_regs' = [i \in 1..LOGISTIC_INPUT_SIZE |-> chunk_inputs[i]]
    /\ lanes_written' = lanes_written + LOGISTIC_INPUT_SIZE
    /\ pc' = "cdp_set_weights"
    /\ UNCHANGED <<driver, op, bias, callerVars, accVars, logisticLocals, cdpArgs,
                   chunk_result, weight_regs, dpaLocals, chunk_size, invocations, ret,
                   argVars, hsVars>>

\* mutant of logistic_set_weights_direct: the loop stops one lane short
logistic_set_weights_short ==
    /\ pc = "cdp_set_weights"
    /\ weight_regs' = [i \in 1..LOGISTIC_INPUT_SIZE |->
                          IF i < LOGISTIC_INPUT_SIZE THEN chunk_weights[i] ELSE weight_regs[i]]
    /\ lanes_written' = lanes_written + LOGISTIC_INPUT_SIZE - 1
    /\ pc' = "cdp_get_result"
    /\ UNCHANGED <<driver, op, bias, callerVars, accVars, logisticLocals, cdpArgs,
                   chunk_result, input_regs, dpaLocals, chunk_size, invocations, ret,
                   argVars, hsVars>>

logistic_set_weights_direct ==
    /\ pc = "cdp_set_weights"
    /\ weight_regs' = [i \in 1..LOGISTIC_INPUT_SIZE |-> chunk_weights[i]]
    /\ lanes_written' = lanes_written + LOGISTIC_INPUT_SIZE
    /\ pc' = "cdp_get_result"
    /\ UNCHANGED <<driver, op, bias, callerVars, accVars, logisticLocals, cdpArgs,
                   chunk_result, input_regs, dpaLocals, chunk_size, invocations, ret,
                   argVars, hsVars>>

logistic_get_result ==
    /\ pc = "cdp_get_result"
    /\ chunk_result' = ResultRegister
    /\ invocations' = invocations + 1
    /\ pc' = cdp_return
    /\ UNCHANGED <<driver, op, bias, callerVars, accVars, logisticLocals, cdpArgs,
                   regVars, dpaLocals, chunk_size, lanes_written, ret, argVars, hsVars>>

\* logistic_compute_dot_product: set inputs, set weights, read the result
EnterComputeDotProduct(x, w, back) ==
    /\ chunk_inputs' = x
    /\ chunk_weights' = w
    /\ cdp_return' = back
    /\ lanes_written' = 0
    /\ pc' = "cdp_set_inputs"

\* a float operand is a numerator over 2^GridBits of at most FloatMantissaBits
\* significant bits
FloatMantissaBits == 24
BitLength(n) == CHOOSE k \in 0..30 : n < 2^k /\ (k = 0 \/ n >= 2^(k - 1))
BigBits(a) == IF a[1] > 0 THEN 16 + BitLength(a[1]) ELSE BitLength(a[2])
\* the float nearest to a product of magnitude mag, ties to even
RoundToFloat(mag) ==
    LET shift == BigBits(mag) - FloatMantissaBits
    IN  IF shift <= 0 THEN mag
        ELSE LET q == ToInt(BigShr(mag, shift))
                 rem == mag[2] % (2^shift)
                 half == 2^(shift - 1)
                 up == IF rem > half \/ (rem = half /\ q % 2 = 1) THEN 1 ELSE 0
             IN  BigMul(FromInt(q + up), FromInt(2^shift))

\* what (uint32_t) makes of a float below -1, which C leaves undefined: 0 where
\* the conversion instruction saturates, the low 32 bits where it goes through a
\* wider signed integer
Conversions == {"saturate", "wrap"}

\* (uint32_t)(value * scale_factor): the float product, its fraction dropped
float_to_fixed(value, factor, conv) ==
    LET product == RoundToFloat(BigMul(FromInt(Abs(value)), FromInt(factor)))
        whole == BigShr(product, GridBits)
    IN  IF value >= 0 \/ whole = BigZero THEN Low32(whole)
        ELSE IF conv = "saturate" THEN BigZero
        ELSE Low32(BigNeg(whole))

\* logistic_compute_dot_product_float converts a chunk; the uint32_t entry
\* points pass it as it is
ChunkWords(a, conv) ==
    IF elem_type = "float"
    THEN [i \in 1..Len(a) |-> float_to_fixed(a[i], scale_factor, conv)]
    ELSE a

\* while (remaining_data >= LOGISTIC_INPUT_SIZE): pass the next full chunk
ProcessChunksWhile ==
    /\ InLogisticEngine /\ pc = "while"
    /\ IF remaining_data >= LOGISTIC_INPUT_SIZE
       THEN /\ \E conv \in Conversions :
                EnterComputeDotProduct(
                    ChunkWords(Slice(inputs, chunks_processed * LOGISTIC_INPUT_SIZE,
                                     LOGISTIC_INPUT_SIZE), conv),
                    ChunkWords(Slice(weights, chunks_processed * LOGISTIC_INPUT_SIZE,
                                     LOGISTIC_INPUT_SIZE), conv),
                    "full")
            /\ ReadUpTo((chunks_processed + 1) * LOGISTIC_INPUT_SIZE)
       ELSE pc' = "if" /\ UNCHANGED <<cdpArgs, lanes_written, read_extent>>
    /\ UNCHANGED <<driver, op, bias, callerVars, accVars, logisticLocals, chunk_result,
                   regVars, dpaLocals, chunk_size, invocations, ret, callArgs, hsVars>>

\* mutant of ProcessChunksFull: the chunk result is added twice
ProcessChunksFullTwice ==
    /\ InLogisticEngine /\ pc = "full"
    /\ Store(BigAdd(BigAdd(Pointee, ZeroExt32(chunk_result)), ZeroExt32(chunk_result)))
    /\ chunks_processed' = chunks_processed + 1
    /\ remaining_data' = remaining_data - LOGISTIC_INPUT_SIZE
    /\ pc' = "while"
    /\ UNCHANGED <<driver, op, bias, callerVars, cdpArgs, chunk_result, regVars,
                   dpaLocals, chunk_size, invocations, lanes_written, ret, argVars, hsVars>>

\* *accumulator += chunk_result; chunks_processed++; remaining_data -= 8
ProcessChunksFull ==
    /\ InLogisticEngine /\ pc = "full"
    /\ Store(BigAdd(Pointee, ZeroExt32(chunk_result)))
    /\ chunks_processed' = chunks_processed + 1
    /\ remaining_data' = remaining_data - LOGISTIC_INPUT_SIZE
    /\ pc' = "while"
    /\ UNCHANGED <<driver, op, bias, callerVars, cdpArgs, chunk_result, regVars,
                   dpaLocals, chunk_size, invocations, lanes_written, ret, argVars, hsVars>>

\* mutant of ProcessChunksIf: the short final chunk is padded in the caller's arrays
ProcessChunksIfInPlace ==
    /\ InLogisticEngine /\ pc = "if"
    /\ IF remaining_data > 0
       THEN /\ \E conv \in Conversions :
                EnterComputeDotProduct(
                    ChunkWords(PartialCopy(inputs, chunks_processed * LOGISTIC_INPUT_SIZE,
                                           remaining_data), conv),
                    ChunkWords(PartialCopy(weights, chunks_processed * LOGISTIC_INPUT_SIZE,
                                           remaining_data), conv),
                    "partial")
            /\ ReadUpTo(chunks_processed * LOGISTIC_INPUT_SIZE + remaining_data)
            /\ inputs' = inputs \o [i \in 1..(LOGISTIC_INPUT_SIZE - remaining_data) |->
                                       ZeroElement]
            /\ weights' = weights \o [i \in 1..(LOGISTIC_INPUT_SIZE - remaining_data) |->
                                         ZeroElement]
       ELSE pc' = "return" /\ UNCHANGED <<cdpArgs, lanes_written, read_extent, inputs, weights>>
    /\ UNCHANGED <<driver, op, bias, lane_width, data_size, first, appended, calls_left,
                   accVars, logisticLocals, chunk_result, regVars, dpaLocals, chunk_size,
                   invocations, ret, callArgs, hsVars>>

\* if (remaining_data > 0): pass the zero-padded copy of the short final chunk
ProcessChunksIf ==
    /\ InLogisticEngine /\ pc = "if"
    /\ IF remaining_data > 0
       THEN /\ \E conv \in Conversions :
                EnterComputeDotProduct(
                    ChunkWords(PartialCopy(inputs, chunks_processed * LOGISTIC_INPUT_SIZE,
                                           remaining_data), conv),
                    ChunkWords(PartialCopy(weights, chunks_processed * LOGISTIC_INPUT_SIZE,
                                           remaining_data), conv),
                    "partial")
            /\ ReadUpTo(chunks_processed * LOGISTIC_INPUT_SIZE + remaining_data)
       ELSE pc' = "return" /\ UNCHANGED <<cdpArgs, lanes_written, read_extent>>
    /\ UNCHANGED <<driver, op, bias, callerVars, accVars, logisticLocals, chunk_result,
                   regVars, dpaLocals, chunk_size, invocations, ret, callArgs, hsVars>>

\* mutant of ProcessChunksPartial: the partial chunk is not counted
ProcessChunksPartialUncounted ==
    /\ InLogisticEngine /\ pc = "partial"
    /\ Store(BigAdd(Pointee, ZeroExt32(chunk_result)))
    /\ pc' = "return"
    /\ UNCHANGED <<driver, op, bias, callerVars, logisticLocals, cdpArgs, chunk_result,
                   regVars, dpaLocals, chunk_size, invocations, lanes_written, ret, argVars, hsVars>>

\* *accumulator += partial_result; chunks_processed++
ProcessChunksPartial ==
    /\ InLogisticEngine /\ pc = "partial"
    /\ Store(BigAdd(Pointee, ZeroExt32(chunk_result)))
    /\ chunks_processed' = chunks_processed + 1
    /\ pc' = "return"
    /\ UNCHANGED <<driver, op, bias, callerVars, remaining_data, cdpArgs, chunk_result,
                   regVars, dpaLocals, chunk_size, invocations, lanes_written, ret, argVars, hsVars>>

\* the caller's bookkeeping when the running entry point returns: the size it
\* passed, code the int result (or 0), value the wide or floating result
Finish(c, v) ==
    /\ ret' = [fn |-> op, build |-> driver, size |-> data_size, code |-> c, value |-> v]
    /\ first' = IF first.fn = "none" THEN ret' ELSE first
    /\ op' = "none"
    /\ pc' = "idle"

\* return (int)chunks_processed, to the caller or to logistic_predict_large_dataset
ProcessChunksReturn ==
    /\ InLogisticEngine /\ pc = "return"
    /\ IF op \in ProcessOps
       THEN Finish(chunks_processed, accumulator)
       ELSE pc' = "bias" /\ UNCHANGED <<op, ret, first>>
    /\ UNCHANGED <<driver, bias, lane_width, inputs, weights, data_size, appended,
                   calls_left, accVars, logisticLocals, cdpArgs, chunk_result, regVars,
                   dpaLocals, chunk_size, invocations, lanes_written, argVars, hsVars>>

\* if (chunks < 0) return 0; return (int64_t)accumulator + bias
PredictLargeReturn ==
    /\ op \in PredictOps /\ pc = "bias"
    /\ Finish(chunks_processed, IF chunks_processed < 0 THEN BigZero
                         ELSE BigAdd(local_accumulator, FromInt(bias)))
    /\ UNCHANGED <<driver, bias, lane_width, inputs, weights, data_size, appended,
                   calls_left, accVars, logisticLocals, cdpArgs, chunk_result, regVars,
                   dpaLocals, chunk_size, invocations, lanes_written, argVars, hsVars>>

\* int32_t range, and what a signed 32-bit addition that leaves it may yield
InInt32(a) == a[1] >= -(Half \div 2) /\ a[1] < Half \div 2
OverflowOutcomes(a) == {SignExt32(Low32(a)), <<-(Half \div 2), 0>>, <<Half \div 2 - 1, Half - 1>>}

\* logistic_predict_raw: return (int32_t)dot_product + bias
PredictRawReturn ==
    /\ op = "predict_raw" /\ pc = "raw"
    /\ LET sum == BigAdd(SignExt32(chunk_result), FromInt(bias))
       IN  \E r \in (IF InInt32(sum) THEN {sum} ELSE OverflowOutcomes(sum)) :
               Finish(0, r)
    /\ UNCHANGED <<driver, bias, lane_width, inputs, weights, data_size, appended,
                   calls_left, accVars, logisticLocals, cdpArgs, chunk_result, regVars,
                   dpaLocals, chunk_size, invocations, lanes_written, argVars, hsVars>>

\* logistic_self_test: the operands of its two checks
SelfTestInputs == [i \in 1..LOGISTIC_INPUT_SIZE |-> FromInt(i)]
SelfTestWeights == [i \in 1..LOGISTIC_INPUT_SIZE |-> FromInt(1)]
SelfTestZeros == [i \in 1..LOGISTIC_INPUT_SIZE |-> BigZero]
SelfTestExpected == FromInt(1 + 2 + 3 + 4 + 5 + 6 + 7 + 8)

\* if (result != expected) return -1; then the all-zero operands
SelfTestFirst ==
    /\ op = "self_test" /\ pc = "self1"
    /\ IF chunk_result # SelfTestExpected
       THEN /\ Finish(-1, chunk_result)
            /\ UNCHANGED <<cdpArgs, lanes_written>>
       ELSE /\ EnterComputeDotProduct(SelfTestZeros, SelfTestWeights, "self2")
            /\ UNCHANGED <<op, ret, first>>
    /\ UNCHANGED <<driver, bias, lane_width, inputs, weights, data_size, appended,
                   calls_left, accVars, logisticLocals, chunk_result, regVars,
                   dpaLocals, chunk_size, invocations, argVars, hsVars>>

\* if (result != 0) return -1; return 0
SelfTestSecond ==
    /\ op = "self_test" /\ pc = "self2"
    /\ Finish(IF chunk_result # BigZero THEN -1 ELSE 0, chunk_result)
    /\ UNCHANGED <<driver, bias, lane_width, inputs, weights, data_size, appended,
                   calls_left, accVars, logisticLocals, cdpArgs, chunk_result, regVars,
                   dpaLocals, chunk_size, invocations, lanes_written, argVars, hsVars>>

\* ------------------------------------------------------------------------
\* software/drivers/dot_product_accel.c: Q16.16 dot product over doubles.
\* A double is [neg, mag, den]: (-1)^neg * mag / 2^den.  The caller's arrays
\* hold the numerators of multiples of 2^-GridBits.
\* ------------------------------------------------------------------------

DoubleOf(n) == [neg |-> n < 0, mag |-> FromInt(Abs(n)), den |-> GridBits]
DoubleMul(x, y) ==
    [neg |-> x.neg # y.neg, mag |-> BigMul(x.mag, y.mag), den |-> x.den + y.den]

\* (int32_t)(value * (1 << fractional_bits)): the conversion drops the fraction
double_to_fixed(value, fractional_bits) ==
    LET m == ToInt(BigShr(value.mag, value.den - fractional_bits))
    IN  IF value.neg THEN -m ELSE m

\* (double)value / (1 << fractional_bits)
fixed64_to_double(value, fractional_bits) ==
    [neg |-> value[1] < 0, mag |-> BigAbs(value), den |-> fractional_bits]

AccelAvailable == driver = "dpa_hw"

\* the lane words dot_product_accel_set_inputs / _set_weights build from a[from..]
ActualCount(count) == IF count > lane_width THEN lane_width ELSE count
\* mutant of FixedLanes: the local array is not zeroed before the conversion loop
FixedLanesUnzeroed(a, from, count) ==
    LET actual_count == ActualCount(count)
    IN  [i \in 1..lane_width |->
            IF i <= actual_count
            THEN Low32(FromInt(double_to_fixed(DoubleOf(a[from + i]),
                                               FIXED_POINT_FRACTIONAL_BITS)))
            ELSE FromInt(1)]

FixedLanes(a, from, count) ==
    LET actual_count == ActualCount(count)
    IN  [i \in 1..lane_width |->
            IF i <= actual_count
            THEN Low32(FromInt(double_to_fixed(DoubleOf(a[from + i]),
                                               FIXED_POINT_FRACTIONAL_BITS)))
            ELSE BigZero]

dot_product_accel_set_inputs ==
    /\ pc = "cc_set_inputs"
    /\ input_regs' = FixedLanes(inputs, processed, chunk_size)
    /\ ReadUpTo(processed + ActualCount(chunk_size))
    /\ lanes_written' = lanes_written + lane_width
    /\ pc' = "cc_set_weights"
    /\ UNCHANGED <<driver, op, bias, callerVars, accVars, logisticLocals, cdpArgs,
                   chunk_result, weight_regs, dpaLocals, chunk_size, invocations, ret,
                   callArgs, hsVars>>

dot_product_accel_set_weights ==
    /\ pc = "cc_set_weights"
    /\ weight_regs' = FixedLanes(weights, processed, chunk_size)
    /\ ReadUpTo(processed + ActualCount(chunk_size))
    /\ lanes_written' = lanes_written + lane_width
    /\ pc' = "cc_get_result"
    /\ UNCHANGED <<driver, op, bias, callerVars, accVars, logisticLocals, cdpArgs,
                   chunk_result, input_regs, dpaLocals, chunk_size, invocations, ret,
                   callArgs, hsVars>>

\* mutant of dot_product_accel_get_result: the register is read as unsigned
dot_product_accel_get_result_unsigned ==
    /\ pc = "cc_get_result"
    /\ chunk_result' = ResultRegister
    /\ invocations' = invocations + 1
    /\ pc' = cdp_return
    /\ UNCHANGED <<driver, op, bias, callerVars, accVars, logisticLocals, cdpArgs,
                   regVars, dpaLocals, chunk_size, lanes_written, ret, argVars, hsVars>>

\* return (int32_t)dot_product_accel_result_read()
dot_product_accel_get_result ==
    /\ pc = "cc_get_result"
    /\ chunk_result' = SignExt32(ResultRegister)
    /\ invocations' = invocations + 1
    /\ pc' = cdp_return
    /\ UNCHANGED <<driver, op, bias, callerVars, accVars, logisticLocals, cdpArgs,
                   regVars, dpaLocals, chunk_size, lanes_written, ret, argVars, hsVars>>

\* the fallback loop: result += double_to_fixed(inputs[i] * weights[i], 16)
RECURSIVE FallbackSum(_, _, _, _)
FallbackSum(a, w, from, n) ==
    IF n = 0 THEN 0
    ELSE FallbackSum(a, w, from, n - 1)
         + double_to_fixed(DoubleMul(DoubleOf(a[from + n]), DoubleOf(w[from + n])),
                           FIXED_POINT_FRACTIONAL_BITS)

dot_product_accel_compute_chunk_fallback ==
    /\ pc = "cc_fallback"
    /\ chunk_result' = FromInt(FallbackSum(inputs, weights, processed, chunk_size))
    /\ ReadUpTo(processed + chunk_size)
    /\ invocations' = invocations + 1
    /\ pc' = cdp_return
    /\ UNCHANGED <<driver, op, bias, callerVars, accVars, logisticLocals, cdpArgs,
                   regVars, dpaLocals, chunk_size, lanes_written, ret, callArgs, hsVars>>

\* dot_product_accel_compute_chunk(&inputs[processed], &weights[processed], n)
EnterComputeChunk(n, back) ==
    /\ chunk_size' = n
    /\ cdp_return' = back
    /\ lanes_written' = 0
    /\ pc' = IF AccelAvailable THEN "cc_set_inputs" ELSE "cc_fallback"

\* while (processed + DOT_PRODUCT_ACCEL_INPUT_SIZE <= size)
DotProductWhile ==
    /\ op = "dot_product" /\ pc = "dp_while"
    /\ IF processed + lane_width <= data_size
       THEN EnterComputeChunk(lane_width, "dp_full")
       ELSE pc' = "dp_if" /\ UNCHANGED <<chunk_size, cdp_return, lanes_written>>
    /\ UNCHANGED <<driver, op, bias, callerVars, accVars, logisticLocals, chunk_inputs,
                   chunk_weights, chunk_result, regVars, dpaLocals, invocations, ret,
                   argVars, hsVars>>

\* total_result += chunk_result; processed += DOT_PRODUCT_ACCEL_INPUT_SIZE
DotProductFull ==
    /\ op = "dot_product" /\ pc = "dp_full"
    /\ total_result' = BigAdd(total_result, chunk_result)
    /\ processed' = processed + lane_width
    /\ pc' = "dp_while"
    /\ UNCHANGED <<driver, op, bias, callerVars, accVars, logisticLocals, cdpArgs,
                   chunk_result, regVars, chunk_size, invocations, lanes_written, ret,
                   argVars, hsVars>>

\* if (processed < size): the remainder, size - processed elements
DotProductIf ==
    /\ op = "dot_product" /\ pc = "dp_if"
    /\ IF processed < data_size
       THEN EnterComputeChunk(data_size - processed, "dp_remainder")
       ELSE pc' = "dp_return" /\ UNCHANGED <<chunk_size, cdp_return, lanes_written>>
    /\ UNCHANGED <<driver, op, bias, callerVars, accVars, logisticLocals, chunk_inputs,
                   chunk_weights, chunk_result, regVars, dpaLocals, invocations, ret,
                   argVars, hsVars>>

\* total_result += remainder_result
DotProductRemainder ==
    /\ op = "dot_product" /\ pc = "dp_remainder"
    /\ total_result' = BigAdd(total_result, chunk_result)
    /\ pc' = "dp_return"
    /\ UNCHANGED <<driver, op, bias, callerVars, accVars, logisticLocals, cdpArgs,
                   chunk_result, regVars, processed, chunk_size, invocations,
                   lanes_written, ret, argVars, hsVars>>

\* return fixed64_to_double(total_result, FIXED_POINT_FRACTIONAL_BITS)
DotProductReturn ==
    /\ op = "dot_product" /\ pc = "dp_return"
    /\ Finish(0, fixed64_to_double(total_result, FIXED_POINT_FRACTIONAL_BITS))
    /\ UNCHANGED <<driver, bias, lane_width, inputs, weights, data_size, appended,
                   calls_left, accVars, logisticLocals, cdpArgs, chunk_result, regVars,
                   dpaLocals, chunk_size, invocations, lanes_written, argVars, hsVars>>

\* ------------------------------------------------------------------------
\* The caller: test vectors, entry-point calls, and the comparison runs of
\* the examples (same data with zeros appended, same data on the other build)
\* ------------------------------------------------------------------------

\* uint32_t vectors, element i (from 1)
Example3Data == <<1, 2, 3, 4, 5, 6, 7, 8, 2, 4, 6, 8, 10, 12, 14, 16,
                  1, 1, 1, 1, 1, 1, 1, 1>>
WordPatterns == {"ramp", "selftest", "carry", "signbit", "max"}
WordInput(p, i) ==
    CASE p = "ramp" -> FromInt(i)
      [] p = "selftest" -> FromInt(IF i <= Len(Example3Data) THEN Example3Data[i] ELSE 1)
      [] p = "carry" -> <<1, 0>>
      [] p = "signbit" -> IF i % LOGISTIC_INPUT_SIZE = 1 THEN <<Half \div 2, 0>> ELSE FromInt(i)
      [] OTHER -> <<Half - 1, Half - 1>>
WordWeight(p, i) ==
    CASE p = "ramp" -> FromInt(((i - 1) % 10) + 1)
      [] p = "selftest" -> FromInt(1)
      [] p = "carry" -> <<1, 0>>
      [] p = "signbit" -> FromInt(1)
      [] OTHER -> FromInt(3)

\* double vectors, element i (from 1), as numerators over 2^GridBits
One == 2^GridBits
DoublePatterns == {"unit", "tiny", "mixed", "negative"}
DoubleInput(p, i) ==
    CASE p = "unit" -> One * (i % 3)
      [] p = "tiny" -> i
      [] p = "negative" -> -One
      [] OTHER -> (IF i % 2 = 0 THEN 1 ELSE -1) * (One + One \div 2 + 1)
DoubleWeight(p, i) ==
    CASE p = "unit" -> One
      [] p = "tiny" -> 4 * One
      [] p = "negative" -> One \div Half
      [] OTHER -> One \div 2

Biases == {1000, -7, -(2^30) - (2^30)}
\* what the lane registers may hold before the first call
Garbage(n) == {[i \in 1..n |-> BigZero], [i \in 1..n |-> <<Half - 1, Half - 1>>]}

Idle == op = "none" /\ pc = "idle" /\ calls_left > 0
\* the second call of a session is a comparison run of the first
MayCall(fn) ==
    /\ Idle
    /\ first.fn = "none" \/ (first.fn = fn /\ (appended > 0 \/ first.build # driver))

\* uint64_t accumulator = 0; chunks = logistic_process_chunks(..., &accumulator)
CallProcessChunks ==
    /\ driver = "logistic" /\ elem_type = "uint32_t" /\ MayCall("process_chunks")
    /\ op' = "process_chunks"
    /\ accumulator' = BigZero
    /\ chunks_processed' = 0
    /\ remaining_data' = data_size
    /\ invocations' = 0
    /\ calls_left' = calls_left - 1
    /\ absent' = {}
    /\ read_extent' = 0
    /\ pc' = "while"
    /\ UNCHANGED <<driver, bias, lane_width, inputs, weights, data_size, first, appended,
                   local_accumulator, cdpArgs, chunk_result, regVars, dpaLocals,
                   chunk_size, lanes_written, ret, typeVars, scale_factor, hsVars>>

\* logistic_predict_large_dataset: uint64_t accumulator = 0, then the engine
CallPredictLarge ==
    /\ driver = "logistic" /\ elem_type = "uint32_t" /\ MayCall("predict_large")
    /\ \E b \in Biases : bias' = b
    /\ op' = "predict_large"
    /\ local_accumulator' = BigZero
    /\ chunks_processed' = 0
    /\ remaining_data' = data_size
    /\ invocations' = 0
    /\ calls_left' = calls_left - 1
    /\ absent' = {}
    /\ read_extent' = 0
    /\ pc' = "while"
    /\ UNCHANGED <<driver, lane_width, inputs, weights, data_size, first, appended,
                   accumulator, cdpArgs, chunk_result, regVars, dpaLocals, chunk_size,
                   lanes_written, ret, typeVars, scale_factor, hsVars>>

\* logistic_predict_raw(inputs, weights, bias) on arrays of LOGISTIC_INPUT_SIZE
CallPredictRaw ==
    /\ driver = "logistic" /\ elem_type = "uint32_t" /\ MayCall("predict_raw")
    /\ data_size >= LOGISTIC_INPUT_SIZE
    /\ \E b \in Biases : bias' = b
    /\ op' = "predict_raw"
    /\ EnterComputeDotProduct(Slice(inputs, 0, LOGISTIC_INPUT_SIZE),
                              Slice(weights, 0, LOGISTIC_INPUT_SIZE), "raw")
    /\ invocations' = 0
    /\ calls_left' = calls_left - 1
    /\ absent' = {}
    /\ read_extent' = LOGISTIC_INPUT_SIZE
    /\ UNCHANGED <<driver, lane_width, inputs, weights, data_size, first, appended,
                   accVars, logisticLocals, chunk_result, regVars, dpaLocals, chunk_size,
                   ret, typeVars, scale_factor, hsVars>>

CallSelfTest ==
    /\ driver = "logistic" /\ elem_type = "uint32_t" /\ MayCall("self_test")
    /\ op' = "self_test"
    /\ EnterComputeDotProduct(SelfTestInputs, SelfTestWeights, "self1")
    /\ invocations' = 0
    /\ calls_left' = calls_left - 1
    /\ absent' = {}
    /\ read_extent' = 0
    /\ UNCHANGED <<driver, bias, lane_width, inputs, weights, data_size, first, appended,
                   accVars, logisticLocals, chunk_result, regVars, dpaLocals, chunk_size,
                   ret, typeVars, scale_factor, hsVars>>

\* int64_t total_result = 0; size_t processed = 0
CallDotProduct ==
    /\ driver \in {"dpa_hw", "dpa_sw"} /\ MayCall("dot_product")
    /\ op' = "dot_product"
    /\ total_result' = BigZero
    /\ processed' = 0
    /\ invocations' = 0
    /\ calls_left' = calls_left - 1
    /\ absent' = {}
    /\ read_extent' = 0
    /\ pc' = "dp_while"
    /\ UNCHANGED <<driver, bias, lane_width, inputs, weights, data_size, first, appended,
                   accVars, logisticLocals, cdpArgs, chunk_result, regVars, chunk_size,
                   lanes_written, ret, typeVars, scale_factor, hsVars>>

\* float vectors, element i (from 1), as numerators over 2^GridBits
FloatPatterns == {"halves", "negative", "third"}
\* 85.66666...f: three times it is within half a float step below 257
NearThird == 11228501
FloatInput(p, i) ==
    CASE p = "halves" -> (One \div 2) * i
      [] p = "negative" -> -(One * (i % 3)) - (One \div 4)
      [] OTHER -> NearThird
FloatWeight(p, i) ==
    CASE p = "halves" -> 2 * One
      [] p = "negative" -> One
      [] OTHER -> One
\* scale factors a caller passes (example_float_processing: 10000)
ScaleFactors == {1, 3, 10000}
\* the ways a caller leaves out an array
AbsentSets == {{"inputs"}, {"weights"}, {"inputs", "weights"}}

\* uint64_t accumulator = 0; logistic_process_chunks_float(..., scale, &accumulator)
CallProcessChunksFloat ==
    /\ driver = "logistic" /\ elem_type = "float" /\ MayCall("process_chunks_float")
    /\ \E s \in ScaleFactors : scale_factor' = s
    /\ absent' = {}
    /\ op' = "process_chunks_float"
    /\ accumulator' = BigZero
    /\ chunks_processed' = 0
    /\ remaining_data' = data_size
    /\ invocations' = 0
    /\ calls_left' = calls_left - 1
    /\ read_extent' = 0
    /\ pc' = "while"
    /\ UNCHANGED <<driver, bias, lane_width, inputs, weights, data_size, first, appended,
                   local_accumulator, cdpArgs, chunk_result, regVars, dpaLocals,
                   chunk_size, lanes_written, ret, typeVars, hsVars>>

\* logistic_predict_large_dataset_float: uint64_t accumulator = 0, then the engine
CallPredictLargeFloat ==
    /\ driver = "logistic" /\ elem_type = "float" /\ MayCall("predict_large_float")
    /\ \E s \in ScaleFactors : scale_factor' = s
    /\ \E b \in Biases : bias' = b
    /\ absent' = {}
    /\ op' = "predict_large_float"
    /\ local_accumulator' = BigZero
    /\ chunks_processed' = 0
    /\ remaining_data' = data_size
    /\ invocations' = 0
    /\ calls_left' = calls_left - 1
    /\ read_extent' = 0
    /\ pc' = "while"
    /\ UNCHANGED <<driver, lane_width, inputs, weights, data_size, first, appended,
                   accumulator, cdpArgs, chunk_result, regVars, dpaLocals, chunk_size,
                   lanes_written, ret, typeVars, hsVars>>

\* an entry point that returns c (an int) or v (an int64_t) from its parameter
\* check: nothing else has run
ReturnsFromCheck(fn, c, v) ==
    /\ ret' = [fn |-> fn, build |-> driver, size |-> data_size, code |-> c, value |-> v]
    /\ invocations' = 0
    /\ lanes_written' = 0
    /\ read_extent' = 0
    /\ calls_left' = calls_left - 1
    /\ UNCHANGED <<driver, op, pc, bias, lane_width, inputs, weights, data_size, first,
                   appended, local_accumulator, logisticLocals, cdpArgs, chunk_result,
                   regVars, dpaLocals, chunk_size, typeVars, hsVars>>

\* logistic_process_chunks: if (!inputs || !weights || !accumulator) return -1
RejectProcessChunks ==
    /\ driver = "logistic" /\ elem_type = "uint32_t" /\ Idle
    /\ first.fn = "process_chunks"
    /\ \E a \in AbsentSets : absent' = a
    /\ accumulator' = BigZero
    /\ UNCHANGED scale_factor
    /\ ReturnsFromCheck("process_chunks", -1, accumulator')

\* logistic_process_chunks_float: ... || scale_factor == 0) return -1
RejectProcessChunksFloat ==
    /\ driver = "logistic" /\ elem_type = "float" /\ Idle
    /\ first.fn = "process_chunks_float"
    /\ \E a \in AbsentSets \union {{}}, s \in ScaleFactors \union {0} :
        /\ a # {} \/ s = 0
        /\ absent' = a
        /\ scale_factor' = s
    /\ accumulator' = BigZero
    /\ ReturnsFromCheck("process_chunks_float", -1, accumulator')

\* logistic_predict_large_dataset: if (!inputs || !weights) return 0
RejectPredictLarge ==
    /\ driver = "logistic" /\ elem_type = "uint32_t" /\ Idle
    /\ first.fn = "predict_large"
    /\ \E a \in AbsentSets : absent' = a
    /\ UNCHANGED <<accumulator, scale_factor>>
    /\ ReturnsFromCheck("predict_large", 0, BigZero)

\* logistic_predict_large_dataset_float: ... || scale_factor == 0) return 0
RejectPredictLargeFloat ==
    /\ driver = "logistic" /\ elem_type = "float" /\ Idle
    /\ first.fn = "predict_large_float"
    /\ \E a \in AbsentSets \union {{}}, s \in ScaleFactors \union {0} :
        /\ a # {} \/ s = 0
        /\ absent' = a
        /\ scale_factor' = s
    /\ UNCHANGED accumulator
    /\ ReturnsFromCheck("predict_large_float", 0, BigZero)

\* dot_product_accel_dot_product(size, NULL, weights): no parameter check, the
\* loops run as for any arrays
CallDotProductAbsent ==
    /\ driver \in {"dpa_hw", "dpa_sw"} /\ Idle
    /\ first.fn = "dot_product"
    /\ \E a \in AbsentSets : absent' = a
    /\ op' = "dot_product"
    /\ total_result' = BigZero
    /\ processed' = 0
    /\ invocations' = 0
    /\ calls_left' = calls_left - 1
    /\ read_extent' = 0
    /\ pc' = "dp_while"
    /\ UNCHANGED <<driver, bias, lane_width, inputs, weights, data_size, first, appended,
                   accVars, logisticLocals, cdpArgs, chunk_result, regVars, chunk_size,
                   lanes_written, ret, typeVars, scale_factor, hsVars>>

\* an element of an absent array is read: the read may trap, and the call then
\* never returns (where it does not trap, the call goes on with the words found
\* at that address)
NullDereference ==
    /\ absent # {}
    /\ pc \in {"cc_set_inputs", "cc_set_weights", "cc_fallback"}
    /\ chunk_size > 0
    /\ pc' = "fault"
    /\ UNCHANGED <<driver, op, bias, callerVars, accVars, logisticLocals, cdpArgs,
                   chunk_result, regVars, dpaLocals, chunk_size, invocations,
                   lanes_written, ret, argVars, hsVars>>

\* the caller extends both arrays with k zero elements for a second run
AppendZeros ==
    /\ Idle /\ first.fn \in {"process_chunks", "dot_product"}
    /\ appended = 0 /\ first.build = driver
    /\ \E k \in 1..MaxAppend :
        /\ appended' = k
        /\ inputs' = inputs \o [i \in 1..k |-> IF driver = "logistic" THEN BigZero ELSE 0]
        /\ weights' = weights \o [i \in 1..k |-> IF driver = "logistic" THEN BigZero ELSE 0]
        /\ data_size' = data_size + k
    /\ UNCHANGED <<driver, op, pc, bias, lane_width, first, calls_left, accVars,
                   logisticLocals, cdpArgs, chunk_result, regVars, dpaLocals, chunk_size,
                   invocations, lanes_written, ret, argVars, hsVars>>

\* the same data is run on the build without the accelerator
SwitchBuild ==
    /\ Idle /\ first.fn = "dot_product"
    /\ appended = 0 /\ first.build = driver /\ driver = "dpa_hw"
    /\ driver' = "dpa_sw"
    /\ UNCHANGED <<op, pc, bias, callerVars, accVars, logisticLocals, cdpArgs,
                   chunk_result, regVars, dpaLocals, chunk_size, invocations,
                   lanes_written, ret, argVars, hsVars>>

\* no handshake unit in the build
InitNoHandshake ==
    /\ ctx_initialized = FALSE /\ ctx_timeout_ms = 0 /\ requested_timeout = 0
    /\ system_time_ms = BigZero /\ start_time = BigZero
    /\ unit = "Ready" /\ hw_mode = "normal"
    /\ bias_reg = BigZero /\ output_reg = BigZero /\ start_writes = 0
    /\ polls = 0 /\ time_reads = 0 /\ observed_done = FALSE /\ elapsed = BigZero
    /\ result = BigZero
    /\ hs_ret = [fn |-> "none", status |-> "none"]

\* no codec run in the session
InitNoCodec ==
    /\ codec_value = [neg |-> FALSE, mag |-> BigZero, den |-> GridBits]
    /\ codec_bits = 0
    /\ codec_fixed = 0
    /\ codec_decoded = [neg |-> FALSE, mag |-> BigZero, den |-> 0]

\* one caller has the accelerator to itself
NoContext == [op |-> "none"]
InitSingleCaller ==
    /\ callers = 1
    /\ running = 1
    /\ suspended = NoContext

InitNoConsole ==
    /\ readstr_s = [i \in 1..64 |-> 0] /\ readstr_ptr = 0
    /\ readstr_ret = [key |-> -1, null |-> TRUE, line |-> <<>>] /\ readstr_wrote = {}

InitNoTimer ==
    /\ timer0_value = BigZero /\ timer0_en = 0
    /\ start_ticks = BigZero /\ elapsed_ticks = BigZero /\ ticks_passed = BigZero
    /\ sw_pc = "idle" /\ sw_ret = [fn |-> "none", value |-> BigZero]

InitNoStream ==
    /\ stream_inputs = <<>> /\ stream_weights = <<>>
    /\ consumed = 0 /\ stream_chunks = 0 /\ stream_pending = FALSE

InitCommon ==
    /\ op = "none" /\ pc = "idle"
    /\ csr_accesses = <<>>
    /\ bias = 0
    /\ accumulator = BigZero /\ local_accumulator = BigZero
    /\ chunks_processed = 0 /\ remaining_data = 0
    /\ chunk_inputs = <<>> /\ chunk_weights = <<>> /\ cdp_return = "none"
    /\ chunk_result = BigZero
    /\ total_result = BigZero /\ processed = 0 /\ chunk_size = 0
    /\ invocations = 0 /\ lanes_written = 0
    /\ ret = NoCall /\ first = NoCall
    /\ appended = 0
    /\ absent = {} /\ scale_factor = 1 /\ read_extent = 0

InitLogistic(sizes, patterns) ==
    /\ driver = "logistic"
    /\ elem_type = "uint32_t"
    /\ lane_width = LOGISTIC_INPUT_SIZE
    /\ data_size \in sizes
    /\ \E p \in patterns :
        /\ inputs = [i \in 1..data_size |-> WordInput(p, i)]
        /\ weights = [i \in 1..data_size |-> WordWeight(p, i)]
    /\ input_regs \in Garbage(lane_width)
    /\ weight_regs = input_regs

InitDotProductAccel(sizes, patterns) ==
    /\ driver \in {"dpa_hw", "dpa_sw"}
    /\ elem_type = "double"
    /\ lane_width \in LaneWidths
    /\ data_size \in sizes
    /\ \E p \in patterns :
        /\ inputs = [i \in 1..data_size |-> DoubleInput(p, i)]
        /\ weights = [i \in 1..data_size |-> DoubleWeight(p, i)]
    /\ input_regs \in Garbage(lane_width)
    /\ weight_regs = input_regs

\* value runs: short vectors of every pattern, compared across two calls
InitEngine ==
    /\ InitCommon
    /\ InitNoHandshake
    /\ InitNoCodec
    /\ InitNoConsole /\ InitNoTimer
    /\ InitSingleCaller
    /\ InitNoStream
    /\ calls_left = MaxCalls
    /\ \/ InitLogistic(0..MaxLen, WordPatterns)
       \/ InitDotProductAccel(0..MaxLen, DoublePatterns)

\* chunk-count runs: one call on a vector of any length up to MaxSize
InitCount ==
    /\ InitCommon
    /\ InitNoHandshake
    /\ InitNoCodec
    /\ InitNoConsole /\ InitNoTimer
    /\ InitSingleCaller
    /\ InitNoStream
    /\ calls_left = 1
    /\ \/ InitLogistic(0..MaxSize, {"ramp"})
       \/ InitDotProductAccel(0..MaxSize, {"tiny"})

EngineStep ==
    \/ logistic_set_inputs_direct
    \/ logistic_set_weights_direct
    \/ logistic_get_result
    \/ ProcessChunksWhile
    \/ ProcessChunksFull
    \/ ProcessChunksIf
    \/ ProcessChunksPartial
    \/ ProcessChunksReturn
    \/ dot_product_accel_set_inputs
    \/ dot_product_accel_set_weights
    \/ dot_product_accel_get_result
    \/ dot_product_accel_compute_chunk_fallback
    \/ DotProductWhile
    \/ DotProductFull
    \/ DotProductIf
    \/ DotProductRemainder
    \/ DotProductReturn

NextCount ==
    \/ CallProcessChunks
    \/ CallDotProduct
    \/ EngineStep

NextEngine ==
    \/ CallProcessChunks
    \/ CallPredictLarge
    \/ CallPredictRaw
    \/ CallSelfTest
    \/ CallDotProduct
    \/ AppendZeros
    \/ SwitchBuild
    \/ PredictLargeReturn
    \/ PredictRawReturn
    \/ SelfTestFirst
    \/ SelfTestSecond
    \/ EngineStep

SpecCount == InitCount /\ [][NextCount]_vars
SpecEngine == InitEngine /\ [][NextEngine]_vars

MaxArgLen == 17     \* longest vector of the argument-check runs

InitLogisticFloat(sizes, patterns) ==
    /\ driver = "logistic"
    /\ elem_type = "float"
    /\ lane_width = LOGISTIC_INPUT_SIZE
    /\ data_size \in sizes
    /\ \E p \in patterns :
        /\ inputs = [i \in 1..data_size |-> FloatInput(p, i)]
        /\ weights = [i \in 1..data_size |-> FloatWeight(p, i)]
    /\ input_regs \in Garbage(lane_width)
    /\ weight_regs = input_regs

\* argument-check runs: a call with valid arguments, then the same entry point
\* with an array left out or a zero scale factor
InitArgs ==
    /\ InitCommon
    /\ InitNoHandshake
    /\ InitNoCodec
    /\ InitNoConsole /\ InitNoTimer
    /\ InitSingleCaller
    /\ InitNoStream
    /\ calls_left = MaxCalls
    /\ \/ InitLogistic(0..MaxArgLen, {"ramp", "signbit"})
       \/ InitLogisticFloat(0..MaxArgLen, FloatPatterns)
       \/ InitDotProductAccel(0..MaxArgLen, {"mixed"})

NextArgs ==
    \/ CallProcessChunks
    \/ CallPredictLarge
    \/ CallDotProduct
    \/ CallProcessChunksFloat
    \/ CallPredictLargeFloat
    \/ RejectProcessChunks
    \/ RejectProcessChunksFloat
    \/ RejectPredictLarge
    \/ RejectPredictLargeFloat
    \/ CallDotProductAbsent
    \/ NullDereference
    \/ PredictLargeReturn
    \/ EngineStep

SpecArgs == InitArgs /\ [][NextArgs]_vars

\* ------------------------------------------------------------------------
\* The handshake units (hardware): a unit is Ready, Busy or Done; a start
\* makes a Ready or Done unit Busy, a Busy unit that works becomes Done with
\* its result, reading the result of a Done unit makes it Ready
\* ------------------------------------------------------------------------

\* logistic_done_read() & 0x1 of the 64-lane unit
DoneRead == unit # "Busy"
\* inference_accel_status_read() & READY, & DONE of the scalar unit
StatusReady == unit = "Ready"
StatusDone == unit = "Done"
MaxLatency == 2     \* most polls a working unit lets a waiting driver make

\* a unit of mode "lagging" latches the start and lowers done in a later step
AfterStartWrite ==
    IF unit \in {"Ready", "Done"}
    THEN (IF hw_mode = "lagging" THEN "Accepted" ELSE "Busy")
    ELSE unit
AfterResultRead == IF unit = "Done" THEN "Ready" ELSE unit
AfterResetWrite == IF hw_mode = "stuck" THEN unit ELSE "Ready"

\* a unit that works finishes within MaxLatency polls of a waiting driver
InLatency ==
    /\ pc \in {"wait_poll", "wait_time"} => polls <= MaxLatency
    /\ pc = "reset_test" =>
           BigLeq(Low32(BigSub(system_time_ms, start_time)), FromInt(MaxLatency))

HwComplete ==
    /\ unit = "Busy" /\ hw_mode = "normal" /\ InLatency
    /\ unit' = "Done"
    /\ output_reg' = Low32(BigAdd(ResultRegister, bias_reg))
    /\ UNCHANGED <<driver, op, pc, calls_left, engineData, regVars, ctxVars, clockVars,
                   bias_reg, start_writes, hw_mode, pollVars, result, hs_ret>>

\* ------------------------------------------------------------------------
\* training/iris_lr_model.h: 64-lane driver with start/done handshake
\* ------------------------------------------------------------------------

LOGISTIC_TIMEOUT_MS == 1000
\* the bound of the idle wait in logistic_reset
ResetWaitMs == 100

MaxTimeout == 2     \* largest timeout a caller passes to logistic_init
MaxHsCalls == 2     \* handshake-driver calls per caller session
WrapLead == 104     \* ticks left before the tick counter wraps, when it is high

Tick(t) == Low32(BigAdd(t, FromInt(1)))
\* (now - start) in uint32_t arithmetic
Elapsed(now, start) == Low32(BigSub(now, start))

HsIdle == op = "none" /\ pc = "idle" /\ calls_left > 0
\* !ctx, and the test !ctx || !ctx->initialized the functions start with
CtxNull == "ctx" \in absent
CtxUsable == ~CtxNull /\ ctx_initialized
HsFinish(status) ==
    /\ hs_ret' = [fn |-> op, status |-> status]
    /\ op' = "none"
    /\ pc' = "idle"

\* mutant of CallLogisticInit: the timeout is stored as passed
CallLogisticInitAsPassed ==
    /\ driver = "iris" /\ HsIdle
    /\ IF CtxNull
       THEN /\ hs_ret' = [fn |-> "init", status |-> "INVALID_PARAM"]
            /\ UNCHANGED <<op, pc, ctxVars>>
       ELSE /\ \E timeout_ms \in 0..MaxTimeout :
                /\ ctx_timeout_ms' = timeout_ms
                /\ requested_timeout' = timeout_ms
            /\ ctx_initialized' = TRUE
            /\ op' = "init"
            /\ pc' = "reset_enter"
            /\ UNCHANGED hs_ret
    /\ calls_left' = calls_left - 1
    /\ UNCHANGED <<driver, engineData, regVars, clockVars, unitVars, hw_mode, pollVars,
                   result>>

\* logistic_init: ctx->initialized = true; the timeout or the default; reset
CallLogisticInit ==
    /\ driver = "iris" /\ HsIdle
    /\ IF CtxNull
       THEN /\ hs_ret' = [fn |-> "init", status |-> "INVALID_PARAM"]
            /\ UNCHANGED <<op, pc, ctxVars>>
       ELSE /\ \E timeout_ms \in 0..MaxTimeout :
                /\ ctx_timeout_ms' = IF timeout_ms > 0 THEN timeout_ms ELSE LOGISTIC_TIMEOUT_MS
                /\ requested_timeout' = timeout_ms
            /\ ctx_initialized' = TRUE
            /\ op' = "init"
            /\ pc' = "reset_enter"
            /\ UNCHANGED hs_ret
    /\ calls_left' = calls_left - 1
    /\ UNCHANGED <<driver, engineData, regVars, clockVars, unitVars, hw_mode, pollVars,
                   result>>

\* the caller stores 0 in ctx->timeout_ms of its context
SetTimeoutZero ==
    /\ driver = "iris" /\ HsIdle /\ ctx_initialized
    /\ ctx_timeout_ms # 0
    /\ ctx_timeout_ms' = 0
    /\ requested_timeout' = 0
    /\ UNCHANGED <<driver, op, pc, calls_left, engineData, regVars, ctx_initialized,
                   clockVars, unitVars, hw_mode, pollVars, result, hs_ret>>

CallLogisticReset ==
    /\ driver = "iris" /\ HsIdle
    /\ op' = "reset"
    /\ pc' = "reset_enter"
    /\ calls_left' = calls_left - 1
    /\ UNCHANGED <<driver, engineData, regVars, hsVars>>

\* logistic_reset: uint32_t start_time = get_time_ms()
LogisticResetEnter ==
    /\ pc = "reset_enter"
    /\ IF CtxNull
       THEN HsFinish("INVALID_PARAM") /\ UNCHANGED clockVars
       ELSE /\ start_time' = system_time_ms
            /\ system_time_ms' = Tick(system_time_ms)
            /\ pc' = "reset_test"
            /\ UNCHANGED <<op, hs_ret>>
    /\ UNCHANGED <<driver, calls_left, engineData, regVars, ctxVars, unitVars,
                   hw_mode, pollVars, result>>

\* while (!logistic_is_done(ctx) && (get_time_ms() - start_time) < 100) {}
\* return LOGISTIC_OK
LogisticResetTestAtEqual ==
    /\ pc = "reset_test"
    /\ IF CtxUsable /\ DoneRead
       THEN HsFinish("OK") /\ UNCHANGED system_time_ms
       ELSE /\ system_time_ms' = Tick(system_time_ms)
            /\ IF BigLeq(Elapsed(system_time_ms, start_time), FromInt(ResetWaitMs))
               THEN UNCHANGED <<op, pc, hs_ret>>
               ELSE HsFinish("OK")
    /\ UNCHANGED <<driver, calls_left, engineData, regVars, ctxVars, start_time,
                   unitVars, hw_mode, pollVars, result>>

LogisticResetTest ==
    /\ pc = "reset_test"
    /\ IF CtxUsable /\ DoneRead
       THEN HsFinish("OK") /\ UNCHANGED system_time_ms
       ELSE /\ system_time_ms' = Tick(system_time_ms)
            /\ IF BigLess(Elapsed(system_time_ms, start_time), FromInt(ResetWaitMs))
               THEN UNCHANGED <<op, pc, hs_ret>>
               ELSE HsFinish("OK")
    /\ UNCHANGED <<driver, calls_left, engineData, regVars, ctxVars, start_time,
                   unitVars, hw_mode, pollVars, result>>

CallStartInference ==
    /\ driver = "iris" /\ HsIdle
    /\ op' = "start_inference"
    /\ pc' = "start_check"
    /\ calls_left' = calls_left - 1
    /\ UNCHANGED <<driver, engineData, regVars, hsVars>>

\* mutant of LogisticStartCheck: the unit is started without the busy check
LogisticStartUnchecked ==
    /\ pc = "start_check"
    /\ IF ~CtxUsable THEN HsFinish("INVALID_PARAM")
       ELSE pc' = "start_write" /\ UNCHANGED <<op, hs_ret>>
    /\ UNCHANGED <<driver, calls_left, engineData, regVars, ctxVars, clockVars, unitVars,
                   hw_mode, pollVars, result>>

\* logistic_start_inference: the parameter check, then if (!logistic_is_done(ctx))
\* return LOGISTIC_ERROR_BUSY
LogisticStartCheck ==
    /\ pc = "start_check"
    /\ IF ~CtxUsable THEN HsFinish("INVALID_PARAM")
       ELSE IF ~DoneRead THEN HsFinish("BUSY")
       ELSE pc' = "start_write" /\ UNCHANGED <<op, hs_ret>>
    /\ UNCHANGED <<driver, calls_left, engineData, regVars, ctxVars, clockVars, unitVars,
                   hw_mode, pollVars, result>>

\* mutant of LogisticStartWrite: logistic_inference tries the start again
LogisticStartWriteRetry ==
    /\ pc = "start_write"
    /\ start_writes' = start_writes + 1
    /\ unit' = AfterStartWrite
    /\ IF op = "inference"
       THEN pc' = "start_check" /\ UNCHANGED <<op, hs_ret>>
       ELSE HsFinish("OK")
    /\ UNCHANGED <<driver, calls_left, engineData, regVars, ctxVars, clockVars, bias_reg,
                   output_reg, hw_mode, pollVars, result>>

\* logistic_start_write(1); return LOGISTIC_OK
LogisticStartWrite ==
    /\ pc = "start_write"
    /\ start_writes' = start_writes + 1
    /\ unit' = AfterStartWrite
    /\ IF op = "inference"
       THEN pc' = "wait_enter" /\ UNCHANGED <<op, hs_ret>>
       ELSE HsFinish("OK")
    /\ UNCHANGED <<driver, calls_left, engineData, regVars, ctxVars, clockVars, bias_reg,
                   output_reg, hw_mode, pollVars, result>>

CallWaitDone ==
    /\ driver = "iris" /\ HsIdle
    /\ op' = "wait_done"
    /\ pc' = "wait_enter"
    /\ calls_left' = calls_left - 1
    /\ UNCHANGED <<driver, engineData, regVars, hsVars>>

\* logistic_wait_done: the parameter check; uint32_t start_time = get_time_ms()
LogisticWaitEnter ==
    /\ pc = "wait_enter"
    /\ IF ~CtxUsable
       THEN HsFinish("INVALID_PARAM") /\ UNCHANGED <<clockVars, pollVars>>
       ELSE /\ start_time' = system_time_ms
            /\ system_time_ms' = Tick(system_time_ms)
            /\ polls' = 0
            /\ time_reads' = 1
            /\ observed_done' = FALSE
            /\ elapsed' = BigZero
            /\ pc' = "wait_poll"
            /\ UNCHANGED <<op, hs_ret>>
    /\ UNCHANGED <<driver, calls_left, engineData, regVars, ctxVars, unitVars, hw_mode,
                   result>>

\* mutant of LogisticWaitPoll: the wait returns OK after one poll, done or not
LogisticWaitPollOnce ==
    /\ pc = "wait_poll"
    /\ polls' = polls + 1
    /\ observed_done' = DoneRead
    /\ IF op = "inference" THEN pc' = "get_result" /\ UNCHANGED <<op, hs_ret>>
       ELSE HsFinish("OK")
    /\ UNCHANGED <<driver, calls_left, engineData, regVars, ctxVars, clockVars, unitVars,
                   hw_mode, time_reads, elapsed, result>>

\* while (!logistic_is_done(ctx)) ...; return LOGISTIC_OK
LogisticWaitPoll ==
    /\ pc = "wait_poll"
    /\ polls' = polls + 1
    /\ observed_done' = DoneRead
    /\ IF ~DoneRead THEN pc' = "wait_time" /\ UNCHANGED <<op, hs_ret>>
       ELSE IF op = "inference" THEN pc' = "get_result" /\ UNCHANGED <<op, hs_ret>>
       ELSE HsFinish("OK")
    /\ UNCHANGED <<driver, calls_left, engineData, regVars, ctxVars, clockVars, unitVars,
                   hw_mode, time_reads, elapsed, result>>

\* mutant of LogisticWaitTime: the comparison is >= instead of >
LogisticWaitTimeAtEqual ==
    /\ pc = "wait_time"
    /\ system_time_ms' = Tick(system_time_ms)
    /\ time_reads' = time_reads + 1
    /\ elapsed' = Elapsed(system_time_ms, start_time)
    /\ IF BigLeq(FromInt(ctx_timeout_ms), elapsed')
       THEN HsFinish("TIMEOUT")
       ELSE pc' = "wait_poll" /\ UNCHANGED <<op, hs_ret>>
    /\ UNCHANGED <<driver, calls_left, engineData, regVars, ctxVars, start_time, unitVars,
                   hw_mode, polls, observed_done, result>>

\* if ((get_time_ms() - start_time) > ctx->timeout_ms) return LOGISTIC_ERROR_TIMEOUT
LogisticWaitTime ==
    /\ pc = "wait_time"
    /\ system_time_ms' = Tick(system_time_ms)
    /\ time_reads' = time_reads + 1
    /\ elapsed' = Elapsed(system_time_ms, start_time)
    /\ IF BigLess(FromInt(ctx_timeout_ms), elapsed')
       THEN HsFinish("TIMEOUT")
       ELSE pc' = "wait_poll" /\ UNCHANGED <<op, hs_ret>>
    /\ UNCHANGED <<driver, calls_left, engineData, regVars, ctxVars, start_time, unitVars,
                   hw_mode, polls, observed_done, result>>

CallGetResult ==
    /\ driver = "iris" /\ HsIdle
    /\ op' = "get_result"
    /\ pc' = "get_result"
    /\ calls_left' = calls_left - 1
    /\ UNCHANGED <<driver, engineData, regVars, hsVars>>

\* mutant of LogisticGetResult: a unit that is not done is reported busy
LogisticGetResultChecked ==
    /\ pc = "get_result"
    /\ IF ~CtxUsable
       THEN HsFinish("INVALID_PARAM") /\ UNCHANGED <<result, unit>>
       ELSE IF ~DoneRead
       THEN HsFinish("BUSY") /\ UNCHANGED <<result, unit>>
       ELSE /\ result' = output_reg
            /\ unit' = AfterResultRead
            /\ HsFinish("OK")
    /\ UNCHANGED <<driver, calls_left, engineData, regVars, ctxVars, clockVars, bias_reg,
                   output_reg, start_writes, hw_mode, pollVars>>

\* logistic_get_result: *result = logistic_output_read(); return LOGISTIC_OK
LogisticGetResult ==
    /\ pc = "get_result"
    /\ IF ~CtxUsable
       THEN HsFinish("INVALID_PARAM") /\ UNCHANGED <<result, unit>>
       ELSE /\ result' = output_reg
            /\ unit' = AfterResultRead
            /\ HsFinish("OK")
    /\ UNCHANGED <<driver, calls_left, engineData, regVars, ctxVars, clockVars, bias_reg,
                   output_reg, start_writes, hw_mode, pollVars>>

\* logistic_inference(ctx, input_data, weights, bias, result)
CallInference ==
    /\ driver = "iris" /\ HsIdle
    /\ op' = "inference"
    /\ pc' = "inference_set"
    /\ calls_left' = calls_left - 1
    /\ UNCHANGED <<driver, engineData, regVars, hsVars>>

\* the parameter check, then logistic_set_input_data, logistic_set_weights and
\* logistic_set_bias write the unit's registers
LogisticInferenceSet ==
    /\ op = "inference" /\ pc = "inference_set"
    /\ IF ~CtxUsable
       THEN HsFinish("INVALID_PARAM") /\ UNCHANGED <<regVars, bias_reg>>
       ELSE /\ input_regs' = [i \in 1..lane_width |-> inputs[i]]
            /\ weight_regs' = [i \in 1..lane_width |-> weights[i]]
            /\ bias_reg' = Low32(FromInt(bias))
            /\ pc' = "start_check"
            /\ UNCHANGED <<op, hs_ret>>
    /\ UNCHANGED <<driver, calls_left, engineData, ctxVars, clockVars, unit, output_reg,
                   start_writes, hw_mode, pollVars, result>>

\* ------------------------------------------------------------------------
\* inference_accel.h: scalar unit polled through its status register
\* ------------------------------------------------------------------------

\* inference_accel_init: inference_accel_reset writes RESET, then 0
inference_accel_init ==
    /\ driver = "inference_accel" /\ HsIdle
    /\ unit' = AfterResetWrite
    /\ hs_ret' = [fn |-> "accel_init", status |-> "VOID"]
    /\ calls_left' = calls_left - 1
    /\ UNCHANGED <<driver, op, pc, engineData, regVars, ctxVars, clockVars, bias_reg,
                   output_reg, start_writes, hw_mode, pollVars, result>>

\* inference_accel_compute_fixed(input_fixed)
CallComputeFixed ==
    /\ driver = "inference_accel" /\ HsIdle
    /\ op' = "compute_fixed"
    /\ pc' = "ready_test"
    /\ calls_left' = calls_left - 1
    /\ UNCHANGED <<driver, engineData, regVars, hsVars>>

\* while (!inference_accel_is_ready()) {}
ComputeFixedReadyTest ==
    /\ op = "compute_fixed" /\ pc = "ready_test"
    /\ pc' = IF StatusReady THEN "write_start" ELSE "ready_spin"
    /\ UNCHANGED <<driver, op, calls_left, engineData, regVars, hsVars>>

ComputeFixedReadySpin ==
    /\ op = "compute_fixed" /\ pc = "ready_spin"
    /\ pc' = "ready_test"
    /\ UNCHANGED <<driver, op, calls_left, engineData, regVars, hsVars>>

\* inference_accel_input_data_write(input_fixed); control START, then 0
ComputeFixedStart ==
    /\ op = "compute_fixed" /\ pc = "write_start"
    /\ input_regs' = <<inputs[1]>>
    /\ start_writes' = start_writes + 1
    /\ unit' = AfterStartWrite
    /\ pc' = "done_test"
    /\ UNCHANGED <<driver, op, calls_left, engineData, weight_regs, ctxVars, clockVars,
                   bias_reg, output_reg, hw_mode, pollVars, result, hs_ret>>

\* inference_accel_wait_done: while (!inference_accel_is_done()) {}
inference_accel_wait_done ==
    /\ op = "compute_fixed" /\ pc = "done_test"
    /\ pc' = IF StatusDone THEN "result_read" ELSE "done_spin"
    /\ UNCHANGED <<driver, op, calls_left, engineData, regVars, hsVars>>

WaitDoneSpin ==
    /\ op = "compute_fixed" /\ pc = "done_spin"
    /\ pc' = "done_test"
    /\ UNCHANGED <<driver, op, calls_left, engineData, regVars, hsVars>>

\* return inference_accel_result_read()
ComputeFixedReturn ==
    /\ op = "compute_fixed" /\ pc = "result_read"
    /\ result' = output_reg
    /\ unit' = AfterResultRead
    /\ HsFinish("VALUE")
    /\ UNCHANGED <<driver, calls_left, engineData, regVars, ctxVars, clockVars, bias_reg,
                   output_reg, start_writes, hw_mode, pollVars>>

\* ------------------------------------------------------------------------
\* Sessions of the handshake drivers
\* ------------------------------------------------------------------------

UnitStates == {"Ready", "Busy"}
HwModes == {"normal", "stuck"}
\* the tick counter at the start of a session: fresh, or WrapLead before it wraps
StartTicks == {BigZero, <<Half - 1, Half - WrapLead>>}

InitHandshake ==
    /\ InitCommon
    /\ InitNoCodec
    /\ InitNoConsole /\ InitNoTimer
    /\ InitSingleCaller
    /\ InitNoStream
    /\ calls_left = MaxHsCalls
    /\ driver \in {"iris", "inference_accel"}
    /\ elem_type = "uint32_t"
    /\ lane_width = IF driver = "iris" THEN 64 ELSE 1
    /\ data_size = lane_width
    /\ inputs = [i \in 1..lane_width |-> WordInput("ramp", i)]
    /\ weights = [i \in 1..lane_width |-> WordWeight("ramp", i)]
    /\ input_regs = [i \in 1..lane_width |-> BigZero]
    /\ weight_regs = IF driver = "iris" THEN input_regs ELSE <<FromInt(3)>>
    /\ ctx_initialized = FALSE
    /\ ctx_timeout_ms = 0
    /\ requested_timeout = 0
    /\ system_time_ms \in StartTicks
    /\ start_time = BigZero
    /\ unit \in UnitStates
    /\ hw_mode \in HwModes
    /\ bias_reg = BigZero
    /\ output_reg = BigZero
    /\ start_writes = 0
    /\ polls = 0 /\ time_reads = 0 /\ observed_done = FALSE /\ elapsed = BigZero
    /\ result = BigZero
    /\ hs_ret = [fn |-> "none", status |-> "none"]

DriverStep ==
    \/ LogisticResetEnter
    \/ LogisticResetTest
    \/ LogisticStartCheck
    \/ LogisticStartWrite
    \/ LogisticWaitEnter
    \/ LogisticWaitPoll
    \/ LogisticWaitTime
    \/ LogisticGetResult
    \/ LogisticInferenceSet
    \/ ComputeFixedReadyTest
    \/ ComputeFixedReadySpin
    \/ ComputeFixedStart
    \/ inference_accel_wait_done
    \/ WaitDoneSpin
    \/ ComputeFixedReturn

NextHandshake ==
    \/ CallLogisticInit
    \/ SetTimeoutZero
    \/ CallLogisticReset
    \/ CallStartInference
    \/ CallWaitDone
    \/ CallGetResult
    \/ CallInference
    \/ inference_accel_init
    \/ CallComputeFixed
    \/ HwComplete
    \/ DriverStep

SpecHandshake == InitHandshake /\ [][NextHandshake]_vars
\* the processor keeps executing the driver; nothing obliges the unit to finish
FairHandshake == SpecHandshake /\ WF_vars(DriverStep)

\* ------------------------------------------------------------------------
\* Register-level calls: init, reset and the lane setters called on their own
\* ------------------------------------------------------------------------

MaxRegCalls == 3    \* register-level calls per caller session
MaxOverCount == 2   \* how far a count passed to a setter may exceed the lanes

ZeroLanes == [i \in 1..lane_width |-> BigZero]
\* what a register-level call of the combinatorial drivers leaves for its caller
Returns(fn, n, c) ==
    /\ ret' = [fn |-> fn, build |-> driver, size |-> n, code |-> c, value |-> BigZero]
    /\ calls_left' = calls_left - 1

\* inference_dumb.h logistic_init: zeros to the input lanes and the weight lanes
logistic_init ==
    /\ driver = "logistic" /\ Idle
    /\ input_regs' = ZeroLanes
    /\ weight_regs' = ZeroLanes
    /\ Returns("logistic_init", 0, 0)
    /\ UNCHANGED <<driver, op, pc, bias, lane_width, inputs, weights, data_size, first,
                   appended, accVars, logisticLocals, cdpArgs, chunk_result, dpaLocals,
                   chunk_size, invocations, lanes_written, argVars, hsVars>>

\* logistic_set_inputs: if (!inputs) return -1; the array goes to the lanes
logistic_set_inputs ==
    /\ driver = "logistic" /\ Idle
    /\ IF "inputs" \in absent
       THEN /\ UNCHANGED input_regs
            /\ read_extent' = 0
            /\ Returns("logistic_set_inputs", LOGISTIC_INPUT_SIZE, -1)
       ELSE /\ input_regs' = [i \in 1..LOGISTIC_INPUT_SIZE |-> inputs[i]]
            /\ read_extent' = LOGISTIC_INPUT_SIZE
            /\ Returns("logistic_set_inputs", LOGISTIC_INPUT_SIZE, 0)
    /\ UNCHANGED <<driver, op, pc, bias, lane_width, inputs, weights, data_size, first,
                   appended, accVars, logisticLocals, cdpArgs, chunk_result, weight_regs,
                   dpaLocals, chunk_size, invocations, lanes_written, callArgs, hsVars>>

\* dot_product_accel_init: zeros to all lanes; empty in the build without the unit
dot_product_accel_init ==
    /\ driver \in {"dpa_hw", "dpa_sw"} /\ Idle
    /\ IF AccelAvailable
       THEN input_regs' = ZeroLanes /\ weight_regs' = ZeroLanes
       ELSE UNCHANGED regVars
    /\ Returns("dot_product_accel_init", 0, 0)
    /\ UNCHANGED <<driver, op, pc, bias, lane_width, inputs, weights, data_size, first,
                   appended, accVars, logisticLocals, cdpArgs, chunk_result, dpaLocals,
                   chunk_size, invocations, lanes_written, argVars, hsVars>>

\* the counts a caller passes to a setter
Counts == {-1, 0, 1, lane_width - 1, lane_width, lane_width + 1, lane_width + MaxOverCount}
ElementsRead(count) == IF ActualCount(count) > 0 THEN ActualCount(count) ELSE 0

\* dot_product_accel_set_inputs(inputs, count) called by the application
CallSetInputs ==
    /\ driver \in {"dpa_hw", "dpa_sw"} /\ Idle
    /\ \E count \in Counts :
        /\ IF AccelAvailable
           THEN /\ input_regs' = FixedLanes(inputs, 0, count)
                /\ read_extent' = ElementsRead(count)
           ELSE /\ UNCHANGED input_regs
                /\ read_extent' = 0
        /\ Returns("set_inputs", count, 0)
    /\ UNCHANGED <<driver, op, pc, bias, lane_width, inputs, weights, data_size, first,
                   appended, accVars, logisticLocals, cdpArgs, chunk_result, weight_regs,
                   dpaLocals, chunk_size, invocations, lanes_written, callArgs, hsVars>>

\* dot_product_accel_set_weights(weights, count) called by the application
CallSetWeights ==
    /\ driver \in {"dpa_hw", "dpa_sw"} /\ Idle
    /\ \E count \in Counts :
        /\ IF AccelAvailable
           THEN /\ weight_regs' = FixedLanes(weights, 0, count)
                /\ read_extent' = ElementsRead(count)
           ELSE /\ UNCHANGED weight_regs
                /\ read_extent' = 0
        /\ Returns("set_weights", count, 0)
    /\ UNCHANGED <<driver, op, pc, bias, lane_width, inputs, weights, data_size, first,
                   appended, accVars, logisticLocals, cdpArgs, chunk_result, input_regs,
                   dpaLocals, chunk_size, invocations, lanes_written, callArgs, hsVars>>

\* iris_lr_model.h logistic_set_input_data(ctx, input_data)
logistic_set_input_data ==
    /\ driver = "iris" /\ HsIdle
    /\ IF ~CtxUsable
       THEN UNCHANGED input_regs
       ELSE input_regs' = [i \in 1..lane_width |-> inputs[i]]
    /\ hs_ret' = [fn |-> "set_input_data",
                  status |-> IF CtxUsable THEN "OK" ELSE "INVALID_PARAM"]
    /\ calls_left' = calls_left - 1
    /\ UNCHANGED <<driver, op, pc, engineData, weight_regs, ctxVars, clockVars, unitVars,
                   hw_mode, pollVars, result>>

InitRegisters ==
    /\ InitCommon
    /\ InitNoCodec
    /\ InitNoConsole /\ InitNoTimer
    /\ InitSingleCaller
    /\ InitNoStream
    /\ calls_left = MaxRegCalls
    /\ \/ /\ driver = "logistic" /\ elem_type = "uint32_t"
          /\ lane_width = LOGISTIC_INPUT_SIZE
          /\ InitNoHandshake
          /\ \E p \in {"ramp", "max"} :
                /\ inputs = [i \in 1..lane_width |-> WordInput(p, i)]
                /\ weights = [i \in 1..lane_width |-> WordWeight(p, i)]
       \/ /\ driver \in {"dpa_hw", "dpa_sw"} /\ elem_type = "double"
          /\ lane_width \in LaneWidths
          /\ InitNoHandshake
          /\ \E p \in DoublePatterns :
                /\ inputs = [i \in 1..lane_width |-> DoubleInput(p, i)]
                /\ weights = [i \in 1..lane_width |-> DoubleWeight(p, i)]
       \/ /\ driver = "iris" /\ elem_type = "uint32_t"
          /\ lane_width = 64
          /\ inputs = [i \in 1..lane_width |-> WordInput("ramp", i)]
          /\ weights = [i \in 1..lane_width |-> WordWeight("ramp", i)]
          /\ ctx_initialized = FALSE /\ ctx_timeout_ms = 0 /\ requested_timeout = 0
          /\ system_time_ms = BigZero /\ start_time = BigZero
          /\ unit \in UnitStates /\ hw_mode \in HwModes
          /\ bias_reg = BigZero /\ output_reg = BigZero /\ start_writes = 0
          /\ polls = 0 /\ time_reads = 0 /\ observed_done = FALSE /\ elapsed = BigZero
          /\ result = BigZero
          /\ hs_ret = [fn |-> "none", status |-> "none"]
    /\ data_size = lane_width
    /\ input_regs \in Garbage(lane_width)
    /\ weight_regs = input_regs

NextRegisters ==
    \/ logistic_init
    \/ logistic_set_inputs
    \/ dot_product_accel_init
    \/ CallSetInputs
    \/ CallSetWeights
    \/ logistic_set_input_data
    \/ CallLogisticInit
    \/ CallLogisticReset
    \/ LogisticResetEnter
    \/ LogisticResetTest
    \/ HwComplete

SpecRegisters == InitRegisters /\ [][NextRegisters]_vars

\* ------------------------------------------------------------------------
\* The fixed-point codecs run on single values: a real is [neg, mag, den],
\* (-1)^neg * mag / 2^den
\* ------------------------------------------------------------------------

MaxNumerator == 40  \* the small reals are the multiples of 2^-GridBits up to this one

\* mutant of fixed_to_double: the word is divided by 1 << (fractional_bits + 1)
fixed_to_double_halved(value, fractional_bits) ==
    [neg |-> value < 0, mag |-> FromInt(Abs(value)), den |-> fractional_bits + 1]

\* (double)value / (1 << fractional_bits)
fixed_to_double(value, fractional_bits) ==
    [neg |-> value < 0, mag |-> FromInt(Abs(value)), den |-> fractional_bits]
\* ((int32_t)((x) * 65536.0))
FLOAT_TO_FIXED(x) ==
    LET m == ToInt(BigShr(x.mag, x.den - 16))
    IN  IF x.neg THEN -m ELSE m
\* (((double)(x)) / 65536.0)
FIXED_TO_FLOAT(x) == [neg |-> x < 0, mag |-> FromInt(Abs(x)), den |-> 16]

FractionalBitCounts == {0, 8, FIXED_POINT_FRACTIONAL_BITS}
\* magnitudes of the doubles converted, as numerators over 2^GridBits: around
\* zero, around one, and the largest whose Q16.16 encoding is an int32_t
DoubleMagnitudes ==
    {FromInt(n) : n \in 0..MaxNumerator}
        \union {FromInt(One - 1), FromInt(One), FromInt(One + 1)}
        \union {<<Half \div 2, 1>>, <<Half - 1, Half - 2>>, <<Half - 1, Half - 1>>}
\* magnitudes of the floats converted
FloatMagnitudes ==
    {FromInt(n) : n \in {0, 1, One \div 4, One - 1, One, One + (One \div 4), (5 * One) \div 2,
                         NearThird}}

codecRest == <<driver, bias, callerVars, accVars, logisticLocals, cdpArgs, chunk_result,
               regVars, dpaLocals, chunk_size, invocations, lanes_written, ret, elem_type,
               codec_value, codec_bits, sharingVars, csr_accesses, streamVars, peripheralVars,
               absent, scale_factor, read_extent,
               hsVars>>

\* codec_fixed = double_to_fixed(codec_value, codec_bits)
CallDoubleToFixed ==
    /\ driver = "codec" /\ elem_type = "double" /\ op = "none" /\ pc = "idle"
    /\ codec_fixed' = double_to_fixed(codec_value, codec_bits)
    /\ op' = "double_to_fixed"
    /\ pc' = "encoded"
    /\ UNCHANGED <<codecRest, codec_decoded>>

\* codec_decoded = fixed_to_double(codec_fixed, codec_bits)
CallFixedToDouble ==
    /\ op = "double_to_fixed" /\ pc = "encoded"
    /\ codec_decoded' = fixed_to_double(codec_fixed, codec_bits)
    /\ pc' = "decoded"
    /\ UNCHANGED <<codecRest, op, codec_fixed>>

\* codec_fixed = FLOAT_TO_FIXED(codec_value)
CallFloatToFixedMacro ==
    /\ driver = "codec" /\ elem_type = "double" /\ op = "none" /\ pc = "idle"
    /\ codec_bits = 16
    /\ codec_fixed' = FLOAT_TO_FIXED(codec_value)
    /\ op' = "FLOAT_TO_FIXED"
    /\ pc' = "encoded"
    /\ UNCHANGED <<codecRest, codec_decoded>>

\* codec_decoded = FIXED_TO_FLOAT(codec_fixed)
CallFixedToFloatMacro ==
    /\ op = "FLOAT_TO_FIXED" /\ pc = "encoded"
    /\ codec_decoded' = FIXED_TO_FLOAT(codec_fixed)
    /\ pc' = "decoded"
    /\ UNCHANGED <<codecRest, op, codec_fixed>>

\* codec_fixed = float_to_fixed(codec_value, scale factor codec_bits)
CallFloatToFixed ==
    /\ driver = "codec" /\ elem_type = "float" /\ op = "none" /\ pc = "idle"
    /\ \E conv \in Conversions :
        codec_fixed' = float_to_fixed(
            IF codec_value.neg THEN -ToInt(codec_value.mag) ELSE ToInt(codec_value.mag),
            codec_bits, conv)
    /\ op' = "float_to_fixed"
    /\ pc' = "encoded"
    /\ UNCHANGED <<codecRest, codec_decoded>>

InitCodec ==
    /\ InitCommon
    /\ InitNoConsole /\ InitNoTimer
    /\ InitSingleCaller
    /\ InitNoStream
    /\ InitNoHandshake
    /\ driver = "codec"
    /\ calls_left = 1
    /\ lane_width = 1 /\ data_size = 0
    /\ inputs = <<>> /\ weights = <<>>
    /\ input_regs = <<>> /\ weight_regs = <<>>
    /\ \/ /\ elem_type = "double"
          /\ codec_bits \in FractionalBitCounts
          /\ codec_value \in [neg : BOOLEAN, mag : DoubleMagnitudes, den : {GridBits}]
       \/ /\ elem_type = "float"
          /\ codec_bits \in ScaleFactors
          /\ codec_value \in [neg : BOOLEAN, mag : FloatMagnitudes, den : {GridBits}]
    /\ codec_fixed = 0
    /\ codec_decoded = [neg |-> FALSE, mag |-> BigZero, den |-> 0]

NextCodec ==
    \/ CallDoubleToFixed
    \/ CallFixedToDouble
    \/ CallFloatToFixedMacro
    \/ CallFixedToFloatMacro
    \/ CallFloatToFixed

SpecCodec == InitCodec /\ [][NextCodec]_vars

\* ------------------------------------------------------------------------
\* Two logical callers on one processor: the lane registers and the unit are
\* shared and nothing serialises the callers, so the processor may leave one
\* caller between any two of its steps and run the other
\* ------------------------------------------------------------------------

\* what belongs to the running caller: its arguments, its locals, its results
Context ==
    [op |-> op, pc |-> pc, bias |-> bias, inputs |-> inputs, weights |-> weights,
     calls_left |-> calls_left, first |-> first, chunk_inputs |-> chunk_inputs,
     chunk_weights |-> chunk_weights, cdp_return |-> cdp_return,
     chunk_result |-> chunk_result, invocations |-> invocations,
     lanes_written |-> lanes_written, ret |-> ret, read_extent |-> read_extent,
     start_time |-> start_time, polls |-> polls, time_reads |-> time_reads,
     observed_done |-> observed_done, elapsed |-> elapsed, result |-> result,
     hs_ret |-> hs_ret]

\* the processor leaves the running caller and resumes the other one
SwitchCaller ==
    /\ callers = 2
    /\ suspended' = Context
    /\ running' = 3 - running
    /\ op' = suspended.op /\ pc' = suspended.pc /\ bias' = suspended.bias
    /\ inputs' = suspended.inputs /\ weights' = suspended.weights
    /\ calls_left' = suspended.calls_left /\ first' = suspended.first
    /\ chunk_inputs' = suspended.chunk_inputs /\ chunk_weights' = suspended.chunk_weights
    /\ cdp_return' = suspended.cdp_return /\ chunk_result' = suspended.chunk_result
    /\ invocations' = suspended.invocations /\ lanes_written' = suspended.lanes_written
    /\ ret' = suspended.ret /\ read_extent' = suspended.read_extent
    /\ start_time' = suspended.start_time /\ polls' = suspended.polls
    /\ time_reads' = suspended.time_reads /\ observed_done' = suspended.observed_done
    /\ elapsed' = suspended.elapsed /\ result' = suspended.result
    /\ hs_ret' = suspended.hs_ret
    /\ UNCHANGED <<driver, lane_width, data_size, appended, accVars, logisticLocals,
                   regVars, dpaLocals, chunk_size, elem_type, codecVars, callers, csr_accesses,
                   streamVars, peripheralVars, absent,
                   scale_factor, ctxVars, system_time_ms, unitVars, hw_mode>>

\* logistic_compute_dot_product(inputs, weights) on arrays of LOGISTIC_INPUT_SIZE
CallComputeDotProduct ==
    /\ driver = "logistic" /\ elem_type = "uint32_t" /\ Idle
    /\ first.fn = "none"
    /\ data_size >= LOGISTIC_INPUT_SIZE
    /\ op' = "compute_dot_product"
    /\ EnterComputeDotProduct(Slice(inputs, 0, LOGISTIC_INPUT_SIZE),
                              Slice(weights, 0, LOGISTIC_INPUT_SIZE), "cdp_done")
    /\ invocations' = 0
    /\ calls_left' = calls_left - 1
    /\ absent' = {}
    /\ read_extent' = LOGISTIC_INPUT_SIZE
    /\ UNCHANGED <<driver, bias, lane_width, inputs, weights, data_size, first, appended,
                   accVars, logisticLocals, chunk_result, regVars, dpaLocals, chunk_size,
                   ret, typeVars, scale_factor, hsVars>>

\* return logistic_result_read()
ComputeDotProductReturn ==
    /\ op = "compute_dot_product" /\ pc = "cdp_done"
    /\ Finish(0, chunk_result)
    /\ UNCHANGED <<driver, bias, lane_width, inputs, weights, data_size, appended,
                   calls_left, accVars, logisticLocals, cdpArgs, chunk_result, regVars,
                   dpaLocals, chunk_size, invocations, lanes_written, argVars, hsVars>>

\* the operands the callers pass
SharingPatterns == {"ramp", "signbit"}
OtherBiases == {1000}

\* sharing runs: one or two callers, each with its own operands, each calling
\* logistic_compute_dot_product (8 lanes) or logistic_inference (64 lanes, on
\* a context logistic_init has initialised) once
InitSharing ==
    /\ InitCommon
    /\ InitNoCodec
    /\ InitNoConsole /\ InitNoTimer
    /\ InitNoStream
    /\ calls_left = 1
    /\ elem_type = "uint32_t"
    /\ driver \in {"logistic", "iris"}
    /\ lane_width = IF driver = "iris" THEN 64 ELSE LOGISTIC_INPUT_SIZE
    /\ data_size = lane_width
    /\ \E p \in SharingPatterns :
        /\ inputs = [i \in 1..data_size |-> WordInput(p, i)]
        /\ weights = [i \in 1..data_size |-> WordWeight(p, i)]
    /\ input_regs \in Garbage(lane_width)
    /\ weight_regs = input_regs
    /\ ctx_initialized = (driver = "iris")
    /\ ctx_timeout_ms = (IF driver = "iris" THEN 1 ELSE 0)
    /\ requested_timeout = ctx_timeout_ms
    /\ system_time_ms = BigZero /\ start_time = BigZero
    /\ unit = "Ready"
    /\ hw_mode = "normal"
    /\ bias_reg = BigZero /\ output_reg = BigZero /\ start_writes = 0
    /\ polls = 0 /\ time_reads = 0 /\ observed_done = FALSE /\ elapsed = BigZero
    /\ result = BigZero
    /\ hs_ret = [fn |-> "none", status |-> "none"]
    /\ callers \in {1, 2}
    /\ running = 1
    /\ IF callers = 1 THEN suspended = NoContext
       ELSE \E q \in SharingPatterns, b \in OtherBiases :
               suspended = [Context EXCEPT
                               !.inputs = [i \in 1..data_size |-> WordInput(q, i)],
                               !.weights = [i \in 1..data_size |-> WordWeight(q, i)],
                               !.bias = IF driver = "iris" THEN b ELSE 0]

NextSharing ==
    \/ SwitchCaller
    \/ CallComputeDotProduct
    \/ logistic_set_inputs_direct
    \/ logistic_set_weights_direct
    \/ logistic_get_result
    \/ ComputeDotProductReturn
    \/ CallInference
    \/ LogisticInferenceSet
    \/ LogisticStartCheck
    \/ LogisticStartWrite
    \/ LogisticWaitEnter
    \/ LogisticWaitPoll
    \/ LogisticWaitTime
    \/ LogisticGetResult
    \/ HwComplete

SpecSharing == InitSharing /\ [][NextSharing]_vars

\* ---------------------------------------------------------------------------
\* Indexed single-lane accessors
\* ---------------------------------------------------------------------------

MaxLaneCalls == 2

\* uint8_t index values a caller passes: low lanes, the last two lanes, the
\* first index past the lanes and the largest uint8_t
LaneIndexes == {i \in 0..(lane_width - 1) : i < 8 \/ i >= lane_width - 2} \cup {lane_width, 255}

LaneValues == {FromInt(7), <<Half \div 2, 5>>}

laneRest == <<driver, op, pc, bias, lane_width, inputs, weights, data_size, first, appended,
              accVars, logisticLocals, cdpArgs, chunk_result, dpaLocals, chunk_size,
              invocations, lanes_written, elem_type, codecVars, sharingVars, streamVars,
              peripheralVars, scale_factor, read_extent, ctxVars, clockVars, unitVars, hw_mode, pollVars, hs_ret>>

Access(kind, bank, word) == [kind |-> kind, bank |-> bank, word |-> word]

\* the shift count a build applies for `x << bit_offset` on a uint64_t: the
\* count itself below 64; at 64 or above the C shift is undefined and a build
\* takes the count modulo 64, shifts by the word size, or produces zero
EffectiveShifts(bit_offset) ==
    IF bit_offset < 64 THEN {bit_offset} ELSE {bit_offset % 64, 32, 64}

\* the two words <<low, high>> of current_val after the mask and the or,
\* where s is the shift the build applied
MaskedValue(word, value, s) ==
    <<IF s = 0 THEN value ELSE word, IF s = 32 THEN value ELSE BigZero>>

\* the register words after the read-modify-write of one indexed write
IndexedWrite(regs, index, value, s) ==
    IF index >= LOGISTIC_INPUT_SIZE THEN regs
    ELSE LET reg_index == index \div 4
             bit_offset == (index % 4) * 32
             current_val == MaskedValue(regs[reg_index + 1], value, s)
         IN  [k \in 1..Len(regs) |->
                 IF k = reg_index + 2 /\ bit_offset >= 32 THEN current_val[2]
                 ELSE IF k = reg_index + 1 THEN current_val[1]
                 ELSE regs[k]]

IndexedAccesses(bank, index) ==
    IF index >= LOGISTIC_INPUT_SIZE THEN <<>>
    ELSE LET reg_index == index \div 4
         IN  <<Access("read", bank, reg_index), Access("write", bank, reg_index)>>
             \o (IF (index % 4) * 32 >= 32 THEN <<Access("write", bank, reg_index + 1)>>
                 ELSE <<>>)

LaneReturns(fn, index, c, v) ==
    /\ ret' = [fn |-> fn, build |-> driver, size |-> index, code |-> c, value |-> v]
    /\ calls_left' = calls_left - 1

logistic_set_input ==
    /\ driver = "logistic" /\ Idle
    /\ \E index \in LaneIndexes, value \in LaneValues :
          \E s \in EffectiveShifts((index % 4) * 32) :
             /\ input_regs' = IndexedWrite(input_regs, index, value, s)
             /\ csr_accesses' = IndexedAccesses("input", index)
             /\ LaneReturns("logistic_set_input", index, 0, value)
    /\ UNCHANGED <<laneRest, weight_regs, result, absent>>

logistic_set_weight ==
    /\ driver = "logistic" /\ Idle
    /\ \E index \in LaneIndexes, value \in LaneValues :
          \E s \in EffectiveShifts((index % 4) * 32) :
             /\ weight_regs' = IndexedWrite(weight_regs, index, value, s)
             /\ csr_accesses' = IndexedAccesses("weight", index)
             /\ LaneReturns("logistic_set_weight", index, 0, value)
    /\ UNCHANGED <<laneRest, input_regs, result, absent>>

logistic_write_input_data_reg_unchecked ==
    /\ driver = "iris" /\ Idle
    /\ \E index \in LaneIndexes, value \in LaneValues :
          /\ input_regs' = [k \in 1..lane_width |->
                              IF k = (index % lane_width) + 1 THEN value ELSE input_regs[k]]
          /\ csr_accesses' = <<Access("write", "input", index)>>
          /\ LaneReturns("logistic_write_input_data_reg", index, 0, value)
    /\ UNCHANGED <<laneRest, weight_regs, result, absent>>

logistic_write_input_data_reg ==
    /\ driver = "iris" /\ Idle
    /\ \E index \in LaneIndexes, value \in LaneValues :
          IF index >= lane_width
          THEN /\ LaneReturns("logistic_write_input_data_reg", index, -2, value)
               /\ csr_accesses' = <<>>
               /\ UNCHANGED input_regs
          ELSE /\ input_regs' = [input_regs EXCEPT ![index + 1] = value]
               /\ csr_accesses' = <<Access("write", "input", index)>>
               /\ LaneReturns("logistic_write_input_data_reg", index, 0, value)
    /\ UNCHANGED <<laneRest, weight_regs, result, absent>>

logistic_write_weight_reg ==
    /\ driver = "iris" /\ Idle
    /\ \E index \in LaneIndexes, value \in LaneValues :
          IF index >= lane_width
          THEN /\ LaneReturns("logistic_write_weight_reg", index, -2, value)
               /\ csr_accesses' = <<>>
               /\ UNCHANGED weight_regs
          ELSE /\ weight_regs' = [weight_regs EXCEPT ![index + 1] = value]
               /\ csr_accesses' = <<Access("write", "weight", index)>>
               /\ LaneReturns("logistic_write_weight_reg", index, 0, value)
    /\ UNCHANGED <<laneRest, input_regs, result, absent>>

logistic_read_input_data_reg ==
    /\ driver = "iris" /\ Idle
    /\ \E index \in LaneIndexes, missing \in {{}, {"value"}} :
          /\ absent' = missing
          /\ IF index >= lane_width \/ "value" \in missing
             THEN /\ LaneReturns("logistic_read_input_data_reg", index, -2, BigZero)
                  /\ csr_accesses' = <<>>
                  /\ UNCHANGED result
             ELSE /\ result' = input_regs[index + 1]
                  /\ csr_accesses' = <<Access("read", "input", index)>>
                  /\ LaneReturns("logistic_read_input_data_reg", index, 0, input_regs[index + 1])
    /\ UNCHANGED <<laneRest, regVars>>

logistic_read_weight_reg ==
    /\ driver = "iris" /\ Idle
    /\ \E index \in LaneIndexes, missing \in {{}, {"value"}} :
          /\ absent' = missing
          /\ IF index >= lane_width \/ "value" \in missing
             THEN /\ LaneReturns("logistic_read_weight_reg", index, -2, BigZero)
                  /\ csr_accesses' = <<>>
                  /\ UNCHANGED result
             ELSE /\ result' = weight_regs[index + 1]
                  /\ csr_accesses' = <<Access("read", "weight", index)>>
                  /\ LaneReturns("logistic_read_weight_reg", index, 0, weight_regs[index + 1])
    /\ UNCHANGED <<laneRest, regVars>>

\* register words that tell the lanes apart
LaneMarks(n, base) == [i \in 1..n |-> FromInt(base + i)]

InitLanes ==
    /\ InitCommon
    /\ InitNoCodec
    /\ InitNoConsole /\ InitNoTimer
    /\ InitSingleCaller
    /\ InitNoStream
    /\ InitNoHandshake
    /\ calls_left = MaxLaneCalls
    /\ elem_type = "uint32_t"
    /\ \/ driver = "logistic" /\ lane_width = LOGISTIC_INPUT_SIZE
       \/ driver = "iris" /\ lane_width = 64
    /\ inputs = [i \in 1..lane_width |-> WordInput("ramp", i)]
    /\ weights = [i \in 1..lane_width |-> WordWeight("ramp", i)]
    /\ data_size = lane_width
    /\ input_regs = LaneMarks(lane_width, 100)
    /\ weight_regs = LaneMarks(lane_width, 200)

NextLanes ==
    \/ logistic_set_input
    \/ logistic_set_weight
    \/ logistic_write_input_data_reg
    \/ logistic_write_weight_reg
    \/ logistic_read_input_data_reg
    \/ logistic_read_weight_reg

SpecLanes == InitLanes /\ [][NextLanes]_vars

\* ---------------------------------------------------------------------------
\* A caller streaming one vector in batches with a running accumulator
\* ---------------------------------------------------------------------------

MaxBatches == 3

StreamLengths == {k * LOGISTIC_INPUT_SIZE : k \in 2..MaxBatches}
                     \cup {MaxBatches * LOGISTIC_INPUT_SIZE + 3}

\* batch lengths the caller hands over: whole lanes, or all that is left
BatchLengths(left) ==
    {b \in 1..left : b % LOGISTIC_INPUT_SIZE = 0} \cup {left}

\* logistic_process_chunks(batch, batch_weights, b, &running_accumulator) with
\* an accumulator the callee zeroes on entry
CallProcessBatchReset ==
    /\ driver = "logistic" /\ op = "none" /\ pc = "idle"
    /\ first.fn = "process_chunks" /\ ~stream_pending
    /\ consumed < Len(stream_inputs)
    /\ \E b \in BatchLengths(Len(stream_inputs) - consumed) :
          /\ inputs' = SubSeq(stream_inputs, consumed + 1, consumed + b)
          /\ weights' = SubSeq(stream_weights, consumed + 1, consumed + b)
          /\ data_size' = b
          /\ remaining_data' = b
          /\ consumed' = consumed + b
    /\ accumulator' = BigZero
    /\ stream_chunks' = IF consumed = 0 THEN 0 ELSE stream_chunks
    /\ stream_pending' = TRUE
    /\ op' = "process_chunks"
    /\ chunks_processed' = 0
    /\ invocations' = 0
    /\ absent' = {}
    /\ read_extent' = 0
    /\ pc' = "while"
    /\ UNCHANGED <<driver, bias, lane_width, first, appended, calls_left,
                   local_accumulator, cdpArgs, chunk_result, regVars, dpaLocals,
                   chunk_size, lanes_written, ret, elem_type, codecVars, sharingVars,
                   csr_accesses, stream_inputs, stream_weights, peripheralVars,
                   scale_factor, hsVars>>

\* one batch of the streaming caller: running_accumulator is zero before the
\* first batch and is passed on as it is to every later one
CallProcessBatch ==
    /\ driver = "logistic" /\ op = "none" /\ pc = "idle"
    /\ first.fn = "process_chunks" /\ ~stream_pending
    /\ consumed < Len(stream_inputs)
    /\ \E b \in BatchLengths(Len(stream_inputs) - consumed) :
          /\ inputs' = SubSeq(stream_inputs, consumed + 1, consumed + b)
          /\ weights' = SubSeq(stream_weights, consumed + 1, consumed + b)
          /\ data_size' = b
          /\ remaining_data' = b
          /\ consumed' = consumed + b
    /\ accumulator' = IF consumed = 0 THEN BigZero ELSE accumulator
    /\ stream_chunks' = IF consumed = 0 THEN 0 ELSE stream_chunks
    /\ stream_pending' = TRUE
    /\ op' = "process_chunks"
    /\ chunks_processed' = 0
    /\ invocations' = 0
    /\ absent' = {}
    /\ read_extent' = 0
    /\ pc' = "while"
    /\ UNCHANGED <<driver, bias, lane_width, first, appended, calls_left,
                   local_accumulator, cdpArgs, chunk_result, regVars, dpaLocals,
                   chunk_size, lanes_written, ret, elem_type, codecVars, sharingVars,
                   csr_accesses, stream_inputs, stream_weights, peripheralVars,
                   scale_factor, hsVars>>

\* int chunks = logistic_process_chunks(...): the caller takes the count
BatchReturned ==
    /\ op = "none" /\ pc = "idle" /\ stream_pending
    /\ stream_chunks' = stream_chunks + ret.code
    /\ stream_pending' = FALSE
    /\ UNCHANGED <<driver, op, pc, bias, callerVars, accVars, logisticLocals, cdpArgs,
                   chunk_result, regVars, dpaLocals, chunk_size, invocations,
                   lanes_written, ret, elem_type, codecVars, sharingVars, csr_accesses,
                   stream_inputs, stream_weights, consumed, peripheralVars, absent,
                   scale_factor, read_extent, hsVars>>

InitStreaming ==
    /\ InitCommon
    /\ InitNoHandshake
    /\ InitNoCodec
    /\ InitNoConsole /\ InitNoTimer
    /\ InitSingleCaller
    /\ calls_left = 1
    /\ InitLogistic(StreamLengths, WordPatterns)
    /\ stream_inputs = inputs /\ stream_weights = weights
    /\ consumed = 0 /\ stream_chunks = 0 /\ stream_pending = FALSE

NextStreaming ==
    \/ CallProcessChunks
    \/ CallProcessBatch
    \/ BatchReturned
    \/ logistic_set_inputs_direct
    \/ logistic_set_weights_direct
    \/ logistic_get_result
    \/ ProcessChunksWhile
    \/ ProcessChunksFull
    \/ ProcessChunksIf
    \/ ProcessChunksPartial
    \/ ProcessChunksReturn

SpecStreaming == InitStreaming /\ [][NextStreaming]_vars

\* ---------------------------------------------------------------------------
\* Inference on a unit whose done flag may lag behind the start write
\* ---------------------------------------------------------------------------

MaxLagCalls == 2

\* the unit takes up a latched start: done goes low
HwAccept ==
    /\ unit = "Accepted"
    /\ unit' = "Busy"
    /\ UNCHANGED <<driver, op, pc, calls_left, engineData, regVars, ctxVars, clockVars,
                   bias_reg, output_reg, start_writes, hw_mode, pollVars, result, hs_ret>>

\* logistic_inference(&ctx, input_data, weights, bias, &result) on the
\* caller's next operands
CallInferenceOn ==
    /\ driver = "iris" /\ HsIdle
    /\ \E p \in SharingPatterns :
          /\ inputs' = [i \in 1..lane_width |-> WordInput(p, i)]
          /\ weights' = [i \in 1..lane_width |-> WordWeight(p, i)]
    /\ op' = "inference"
    /\ pc' = "inference_set"
    /\ calls_left' = calls_left - 1
    /\ UNCHANGED <<driver, bias, lane_width, data_size, first, appended, accVars,
                   logisticLocals, cdpArgs, chunk_result, dpaLocals, chunk_size,
                   invocations, lanes_written, ret, argVars, regVars, hsVars>>

InitLagging ==
    /\ InitCommon
    /\ InitNoCodec
    /\ InitNoConsole /\ InitNoTimer
    /\ InitSingleCaller
    /\ InitNoStream
    /\ calls_left = MaxLagCalls
    /\ driver = "iris"
    /\ elem_type = "uint32_t"
    /\ lane_width = 64
    /\ data_size = lane_width
    /\ inputs = [i \in 1..lane_width |-> WordInput("ramp", i)]
    /\ weights = [i \in 1..lane_width |-> WordWeight("ramp", i)]
    /\ input_regs \in Garbage(lane_width)
    /\ weight_regs = input_regs
    /\ ctx_initialized = TRUE
    /\ ctx_timeout_ms \in 1..MaxTimeout
    /\ requested_timeout = ctx_timeout_ms
    /\ system_time_ms \in StartTicks
    /\ start_time = BigZero
    /\ unit = "Ready"
    /\ hw_mode \in {"normal", "lagging"}
    /\ bias_reg = BigZero
    /\ output_reg \in {g[1] : g \in Garbage(1)}
    /\ start_writes = 0
    /\ polls = 0 /\ time_reads = 0 /\ observed_done = FALSE /\ elapsed = BigZero
    /\ result = BigZero
    /\ hs_ret = [fn |-> "none", status |-> "none"]

NextLagging ==
    \/ CallInferenceOn
    \/ LogisticInferenceSet
    \/ LogisticStartCheck
    \/ LogisticStartWrite
    \/ LogisticWaitEnter
    \/ LogisticWaitPoll
    \/ LogisticWaitTime
    \/ LogisticGetResult
    \/ HwAccept
    \/ HwComplete

SpecLagging == InitLagging /\ [][NextLagging]_vars

\* ---------------------------------------------------------------------------
\* The 64-lane handshake driver on absent, uninitialized and initialized
\* contexts
\* ---------------------------------------------------------------------------

MaxCtxCalls == 2

\* the functions that test ctx->initialized before anything else
GuardedOps == {"set_input_data", "set_weights", "set_bias", "start_inference",
               "wait_done", "get_result", "inference", "is_done"}

\* logistic_is_done answers false, every other function
\* LOGISTIC_ERROR_INVALID_PARAM
Refusal(fn) == IF fn = "is_done" THEN "false" ELSE "INVALID_PARAM"

ctxRest == <<driver, op, pc, engineData, ctxVars, clockVars, hw_mode, pollVars, result>>

\* the caller passes its context, or NULL, from now on
ChooseContext ==
    /\ driver = "iris" /\ HsIdle
    /\ \E a \in {{}, {"ctx"}} : a # absent /\ absent' = a
    /\ UNCHANGED <<driver, op, pc, bias, callerVars, accVars, logisticLocals, cdpArgs,
                   chunk_result, regVars, dpaLocals, chunk_size, invocations,
                   lanes_written, ret, typeVars, scale_factor, read_extent, hsVars>>

logistic_set_weights ==
    /\ driver = "iris" /\ HsIdle
    /\ IF ~CtxUsable
       THEN UNCHANGED weight_regs
       ELSE weight_regs' = [i \in 1..lane_width |-> weights[i]]
    /\ hs_ret' = [fn |-> "set_weights",
                  status |-> IF CtxUsable THEN "OK" ELSE "INVALID_PARAM"]
    /\ calls_left' = calls_left - 1
    /\ UNCHANGED <<ctxRest, input_regs, unitVars>>

logistic_set_bias_unchecked ==
    /\ driver = "iris" /\ HsIdle
    /\ bias_reg' = Low32(FromInt(bias))
    /\ hs_ret' = [fn |-> "set_bias", status |-> "OK"]
    /\ calls_left' = calls_left - 1
    /\ UNCHANGED <<ctxRest, regVars, unit, output_reg, start_writes>>

logistic_set_bias ==
    /\ driver = "iris" /\ HsIdle
    /\ IF ~CtxUsable
       THEN UNCHANGED bias_reg
       ELSE bias_reg' = Low32(FromInt(bias))
    /\ hs_ret' = [fn |-> "set_bias",
                  status |-> IF CtxUsable THEN "OK" ELSE "INVALID_PARAM"]
    /\ calls_left' = calls_left - 1
    /\ UNCHANGED <<ctxRest, regVars, unit, output_reg, start_writes>>

logistic_is_done ==
    /\ driver = "iris" /\ HsIdle
    /\ hs_ret' = [fn |-> "is_done",
                  status |-> IF CtxUsable /\ DoneRead THEN "true" ELSE "false"]
    /\ calls_left' = calls_left - 1
    /\ UNCHANGED <<ctxRest, regVars, unitVars>>

InitContext ==
    /\ InitCommon
    /\ InitNoCodec
    /\ InitNoConsole /\ InitNoTimer
    /\ InitSingleCaller
    /\ InitNoStream
    /\ calls_left = MaxCtxCalls
    /\ driver = "iris"
    /\ elem_type = "uint32_t"
    /\ lane_width = 64
    /\ data_size = lane_width
    /\ inputs = [i \in 1..lane_width |-> WordInput("ramp", i)]
    /\ weights = [i \in 1..lane_width |-> WordWeight("ramp", i)]
    /\ input_regs \in Garbage(lane_width)
    /\ weight_regs = input_regs
    /\ ctx_initialized = FALSE
    /\ ctx_timeout_ms = 0
    /\ requested_timeout = 0
    /\ system_time_ms = BigZero
    /\ start_time = BigZero
    /\ unit \in UnitStates
    /\ hw_mode = "normal"
    /\ bias_reg = BigZero
    /\ output_reg = BigZero
    /\ start_writes = 0
    /\ polls = 0 /\ time_reads = 0 /\ observed_done = FALSE /\ elapsed = BigZero
    /\ result = BigZero
    /\ hs_ret = [fn |-> "none", status |-> "none"]

NextContext ==
    \/ ChooseContext
    \/ CallLogisticInit
    \/ CallStartInference
    \/ CallWaitDone
    \/ CallGetResult
    \/ CallInference
    \/ CallLogisticReset
    \/ logistic_set_input_data
    \/ logistic_set_weights
    \/ logistic_set_bias
    \/ logistic_is_done
    \/ LogisticResetEnter
    \/ LogisticResetTest
    \/ LogisticStartCheck
    \/ LogisticStartWrite
    \/ LogisticWaitEnter
    \/ LogisticWaitPoll
    \/ LogisticWaitTime
    \/ LogisticGetResult
    \/ LogisticInferenceSet
    \/ HwComplete

SpecContext == InitContext /\ [][NextContext]_vars

\* ---------------------------------------------------------------------------
\* logistic_reset and logistic_init on a unit that may never report done
\* ---------------------------------------------------------------------------

MaxResetCalls == 2

ResetStep ==
    \/ LogisticResetEnter
    \/ LogisticResetTest
    \/ LogisticStartCheck
    \/ LogisticStartWrite

InitReset ==
    /\ InitCommon
    /\ InitNoCodec
    /\ InitNoConsole /\ InitNoTimer
    /\ InitSingleCaller
    /\ InitNoStream
    /\ calls_left = MaxResetCalls
    /\ driver = "iris"
    /\ elem_type = "uint32_t"
    /\ lane_width = 64
    /\ data_size = lane_width
    /\ inputs = [i \in 1..lane_width |-> WordInput("ramp", i)]
    /\ weights = [i \in 1..lane_width |-> WordWeight("ramp", i)]
    /\ input_regs \in Garbage(lane_width)
    /\ weight_regs = input_regs
    /\ ctx_initialized = FALSE
    /\ ctx_timeout_ms = 0
    /\ requested_timeout = 0
    /\ system_time_ms \in StartTicks
    /\ start_time = BigZero
    /\ unit \in UnitStates
    /\ hw_mode \in HwModes
    /\ bias_reg = BigZero
    /\ output_reg = BigZero
    /\ start_writes = 0
    /\ polls = 0 /\ time_reads = 0 /\ observed_done = FALSE /\ elapsed = BigZero
    /\ result = BigZero
    /\ hs_ret = [fn |-> "none", status |-> "none"]

NextReset ==
    \/ CallLogisticInit
    \/ CallLogisticReset
    \/ CallStartInference
    \/ HwComplete
    \/ ResetStep

SpecReset == InitReset /\ [][NextReset]_vars
\* the processor keeps executing the driver; nothing obliges the unit to finish
FairReset == SpecReset /\ WF_vars(ResetStep)

\* ---------------------------------------------------------------------------
\* The console line buffer (readstr)
\* ---------------------------------------------------------------------------

MaxKeys == 3

BufferSize == 64

\* the characters the console delivers: DEL, BS, BEL, CR, LF and two letters
Keys == {127, 8, 7, 13, 10, 97, 98}

\* characters already typed when the session starts
StartFills == {0, 1, BufferSize - 2, BufferSize - 1}

consoleRest == <<driver, op, pc, bias, lane_width, inputs, weights, data_size, first,
                 appended, accVars, logisticLocals, cdpArgs, chunk_result, regVars,
                 dpaLocals, chunk_size, invocations, lanes_written, ret, elem_type,
                 codecVars, sharingVars, csr_accesses, streamVars, timerVars, absent,
                 scale_factor, read_extent, hsVars>>

\* the C string at s: the characters before the first NUL
RECURSIVE CStringFrom(_, _)
CStringFrom(buf, i) ==
    IF i > Len(buf) \/ buf[i] = 0 THEN <<>>
    ELSE <<buf[i]>> \o CStringFrom(buf, i + 1)

\* s[idx] = v; a store past the array is not a store to s
StoreAt(buf, idx, v) ==
    IF idx \in 0..(BufferSize - 1) THEN [buf EXCEPT ![idx + 1] = v] ELSE buf

\* one call of readstr with no character waiting (key -1) or with character c
ReadstrOn(c, limit) ==
    CASE c = -1 \/ c = 7 ->
            /\ readstr_ret' = [key |-> c, null |-> TRUE, line |-> <<>>]
            /\ readstr_wrote' = {}
            /\ UNCHANGED <<readstr_s, readstr_ptr>>
      [] c \in {127, 8} ->
            /\ readstr_ptr' = IF readstr_ptr > 0 THEN readstr_ptr - 1 ELSE readstr_ptr
            /\ readstr_ret' = [key |-> c, null |-> TRUE, line |-> <<>>]
            /\ readstr_wrote' = {}
            /\ UNCHANGED readstr_s
      [] c \in {13, 10} ->
            /\ readstr_s' = StoreAt(readstr_s, readstr_ptr, 0)
            /\ readstr_wrote' = {readstr_ptr}
            /\ readstr_ptr' = 0
            /\ readstr_ret' = [key |-> c, null |-> FALSE, line |-> CStringFrom(readstr_s', 1)]
      [] OTHER ->
            IF readstr_ptr >= limit
            THEN /\ readstr_ret' = [key |-> c, null |-> TRUE, line |-> <<>>]
                 /\ readstr_wrote' = {}
                 /\ UNCHANGED <<readstr_s, readstr_ptr>>
            ELSE /\ readstr_s' = StoreAt(readstr_s, readstr_ptr, c)
                 /\ readstr_wrote' = {readstr_ptr}
                 /\ readstr_ptr' = readstr_ptr + 1
                 /\ readstr_ret' = [key |-> c, null |-> TRUE, line |-> <<>>]

readstr_unbounded ==
    /\ driver = "console" /\ Idle
    /\ \E c \in Keys \cup {-1} : ReadstrOn(c, BufferSize + 1)
    /\ calls_left' = calls_left - 1
    /\ UNCHANGED consoleRest

readstr ==
    /\ driver = "console" /\ Idle
    /\ \E c \in Keys \cup {-1} : ReadstrOn(c, BufferSize - 1)
    /\ calls_left' = calls_left - 1
    /\ UNCHANGED consoleRest

InitConsole ==
    /\ InitCommon
    /\ InitNoHandshake
    /\ InitSingleCaller
    /\ InitNoStream
    /\ InitNoTimer
    /\ codec_value = [neg |-> FALSE, mag |-> BigZero, den |-> GridBits]
    /\ codec_bits = 0 /\ codec_fixed = 0
    /\ codec_decoded = [neg |-> FALSE, mag |-> BigZero, den |-> 0]
    /\ driver = "console"
    /\ elem_type = "uint32_t"
    /\ calls_left = MaxKeys
    /\ lane_width = 1 /\ data_size = 0
    /\ inputs = <<>> /\ weights = <<>>
    /\ input_regs = <<>> /\ weight_regs = <<>>
    /\ readstr_ptr \in StartFills
    /\ readstr_s = [i \in 1..BufferSize |-> IF i <= readstr_ptr THEN 97 ELSE 0]
    /\ readstr_ret = [key |-> -1, null |-> TRUE, line |-> <<>>]
    /\ readstr_wrote = {}

NextConsole == readstr

SpecConsole == InitConsole /\ [][NextConsole]_vars

\* ---------------------------------------------------------------------------
\* The stopwatch over timer0
\* ---------------------------------------------------------------------------

MaxSwSteps == 6

\* clock ticks that pass between two steps of the program: a few, half the
\* counter's period, and three short of the whole period
TickSteps == {FromInt(1), FromInt(3), <<Half \div 2, 0>>, <<Half - 1, Half - 3>>}

\* the longest measurement followed: one and a half periods
MaxTicksPassed == <<Half + (Half \div 2), 0>>

swRest == <<driver, op, pc, bias, lane_width, inputs, weights, data_size, first,
            appended, accVars, logisticLocals, cdpArgs, chunk_result, regVars,
            dpaLocals, chunk_size, invocations, lanes_written, ret, elem_type,
            codecVars, sharingVars, csr_accesses, streamVars, consoleVars, absent,
            scale_factor, read_extent, hsVars>>

SwIdle == driver = "timer" /\ calls_left > 0 /\ sw_pc = "idle"

\* the enabled counter counts down and goes from 0 to its reload value
\* 0xffffffff; the clock runs whether or not the program measures
TimerTick ==
    /\ driver = "timer" /\ calls_left > 0
    /\ timer0_en = 1
    /\ \E n \in TickSteps :
          /\ BigLeq(BigAdd(ticks_passed, n), MaxTicksPassed)
          /\ timer0_value' = Low32(BigSub(timer0_value, n))
          /\ ticks_passed' = BigAdd(ticks_passed, n)
    /\ calls_left' = calls_left - 1
    /\ UNCHANGED <<swRest, timer0_en, start_ticks, elapsed_ticks, sw_pc, sw_ret>>

\* start_stopwatch up to timer0_en_write(1): the disabled counter takes the
\* load value
StartStopwatchLoad ==
    /\ SwIdle
    /\ timer0_value' = <<Half - 1, Half - 1>>
    /\ timer0_en' = 1
    /\ ticks_passed' = BigZero
    /\ sw_pc' = "enabled"
    /\ calls_left' = calls_left - 1
    /\ UNCHANGED <<swRest, start_ticks, elapsed_ticks, sw_ret>>

\* timer0_update_value_write(1); start_ticks = timer0_value_read();
StartStopwatchLatch ==
    /\ driver = "timer" /\ sw_pc = "enabled"
    /\ start_ticks' = timer0_value
    /\ ticks_passed' = BigZero
    /\ sw_pc' = "idle"
    /\ sw_ret' = [fn |-> "start_stopwatch", value |-> BigZero]
    /\ UNCHANGED <<swRest, calls_left, timer0_value, timer0_en, elapsed_ticks>>

stop_stopwatch_reversed ==
    /\ SwIdle
    /\ elapsed_ticks' = Low32(BigSub(timer0_value, start_ticks))
    /\ sw_ret' = [fn |-> "stop_stopwatch", value |-> BigZero]
    /\ calls_left' = calls_left - 1
    /\ UNCHANGED <<swRest, timer0_value, timer0_en, start_ticks, ticks_passed, sw_pc>>

stop_stopwatch ==
    /\ SwIdle
    /\ elapsed_ticks' = Low32(BigSub(start_ticks, timer0_value))
    /\ sw_ret' = [fn |-> "stop_stopwatch", value |-> BigZero]
    /\ calls_left' = calls_left - 1
    /\ UNCHANGED <<swRest, timer0_value, timer0_en, start_ticks, ticks_passed, sw_pc>>

get_elapsed_ticks ==
    /\ SwIdle
    /\ sw_ret' = [fn |-> "get_elapsed_ticks", value |-> elapsed_ticks]
    /\ calls_left' = calls_left - 1
    /\ UNCHANGED <<swRest, timer0_value, timer0_en, start_ticks, elapsed_ticks,
                   ticks_passed, sw_pc>>

InitStopwatch ==
    /\ InitCommon
    /\ InitNoHandshake
    /\ InitSingleCaller
    /\ InitNoStream
    /\ InitNoConsole
    /\ InitNoTimer
    /\ codec_value = [neg |-> FALSE, mag |-> BigZero, den |-> GridBits]
    /\ codec_bits = 0 /\ codec_fixed = 0
    /\ codec_decoded = [neg |-> FALSE, mag |-> BigZero, den |-> 0]
    /\ driver = "timer"
    /\ elem_type = "uint32_t"
    /\ calls_left = MaxSwSteps
    /\ lane_width = 1 /\ data_size = 0
    /\ inputs = <<>> /\ weights = <<>>
    /\ input_regs = <<>> /\ weight_regs = <<>>

NextStopwatch ==
    \/ TimerTick
    \/ StartStopwatchLoad
    \/ StartStopwatchLatch
    \/ stop_stopwatch
    \/ get_elapsed_ticks

SpecStopwatch == InitStopwatch /\ [][NextStopwatch]_vars

\* ------------------------------------------------------------------------
\* Reference values the results are compared with
\* ------------------------------------------------------------------------

CeilDiv(n, w) == (n + w - 1) \div w
Returned(fn) == op = "none" /\ ret.fn = fn

\* sum over i in lo..hi of x[i] * w[i], exact
RECURSIVE ExactSum(_, _, _, _)
ExactSum(x, w, lo, hi) ==
    IF lo > hi THEN BigZero
    ELSE IF lo = hi THEN BigMul(x[lo], w[lo])
    ELSE LET mid == (lo + hi) \div 2
         IN  BigAdd(ExactSum(x, w, lo, mid), ExactSum(x, w, mid + 1, hi))

\* the exact dot product of chunk k (from 0) of the first n elements
ChunkExact(k, n) ==
    ExactSum(inputs, weights, k * LOGISTIC_INPUT_SIZE + 1,
             Min((k + 1) * LOGISTIC_INPUT_SIZE, n))
\* sum over the chunks before k of the exact chunk dot products cut to 32 bits
RECURSIVE ChunkWordsSum(_, _)
ChunkWordsSum(k, n) ==
    IF k = 0 THEN BigZero
    ELSE BigAdd(ChunkWordsSum(k - 1, n), Low32(ChunkExact(k - 1, n)))
ChunksOf(n) == CeilDiv(n, LOGISTIC_INPUT_SIZE)
EveryChunkFitsWord(n) ==
    \A k \in 0..(ChunksOf(n) - 1) : BigLess(ChunkExact(k, n), <<Half, 0>>)

\* ------------------------------------------------------------------------
\* Claims
\* ------------------------------------------------------------------------

\* C1: when a chunked entry point has returned, it has invoked the per-chunk
\* primitive exactly ceil(size / LaneWidth) times (0 times for size 0), and
\* logistic_process_chunks has returned that number as its chunk count.
ChunkCountIsCeil ==
    (op = "none" /\ ret.fn \in {"process_chunks", "dot_product"}) =>
        /\ invocations = CeilDiv(ret.size, lane_width)
        /\ ret.size = 0 => invocations = 0
        /\ ret.fn = "process_chunks" => ret.code = invocations

\* C1 witness: 100 elements at 8 lanes returned 13 chunks.
HundredElementsThirteenChunks ==
    /\ Returned("process_chunks")
    /\ ret.size = 100 /\ lane_width = 8
    /\ ret.code = 13 /\ invocations = 13

\* C2 (as claimed): the same vectors run on the build with the accelerator and
\* then on the build with the software fallback return the same double.
HardwareFallbackBitIdentical ==
    (Returned("dot_product") /\ first.build = "dpa_hw" /\ ret.build = "dpa_sw"
        /\ ret.size = first.size)
        => ret.value = first.value

\* C3 (as claimed): after logistic_process_chunks on an accumulator of 0 the
\* accumulator is the plain sum of the 64-bit products inputs[i] * weights[i],
\* for every operand values.
AccumulatorIsSoftwareSum ==
    Returned("process_chunks") =>
        ret.value = ExactSum(inputs, weights, 1, ret.size)

\* C3 (amended): the accumulator is the sum of the 32-bit per-chunk results,
\* and it is the plain 64-bit sum of products whenever every chunk's dot
\* product fits in 32 bits.
AccumulatorIsSumOfChunkWords ==
    Returned("process_chunks") =>
        /\ ret.value = ChunkWordsSum(ret.code, ret.size)
        /\ EveryChunkFitsWord(ret.size) =>
               ret.value = ExactSum(inputs, weights, 1, ret.size)

\* C3 witness: the 24-element example gave 3 chunks and 36 + 72 + 8 = 116.
Example3Gives116 ==
    /\ Returned("process_chunks")
    /\ ret.size = 24 /\ appended = 0
    /\ inputs = [i \in 1..24 |-> FromInt(Example3Data[i])]
    /\ ret.code = 3
    /\ ret.value = FromInt(116)

\* C4: a run on the same vectors with zeros appended to both returns the
\* dot product the first run returned, on every build and for a final chunk
\* of every length.
ZeroPaddingKeepsResult ==
    (op = "none" /\ ret.fn \in {"process_chunks", "dot_product"}
        /\ appended > 0 /\ ret.size = first.size + appended /\ ret.build = first.build)
        => ret.value = first.value

\* C4 witness: a vector ending in a short chunk was rerun with zeros appended
\* past the next chunk boundary, and its dot product is not zero.
PaddedRunAcrossBoundary ==
    /\ Returned("process_chunks")
    /\ appended > 0 /\ ret.size = first.size + appended
    /\ first.size % LOGISTIC_INPUT_SIZE = 3
    /\ ret.code = first.code + 1
    /\ first.value # BigZero

\* C5 (as claimed): logistic_predict_large_dataset returns the accumulated
\* chunk results plus the bias as a signed 64-bit value, and
\* logistic_predict_raw returns the dot product of its chunk plus the bias.
PredictIsDotProductPlusBias ==
    /\ Returned("predict_large") =>
           ret.value = BigAdd(ChunkWordsSum(ChunksOf(ret.size), ret.size), FromInt(bias))
    /\ Returned("predict_raw") =>
           ret.value = BigAdd(Low32(ChunkExact(0, LOGISTIC_INPUT_SIZE)), FromInt(bias))

\* C6: logistic_compute_dot_product has written all input lanes and all weight
\* lanes when it reads the result register; what it returns is the 32-bit sum
\* of the products of the operands of that call, whatever the lanes held
\* before; logistic_self_test returns 0.
CombinatorialResultIsLaneSum ==
    driver = "logistic" =>
        /\ pc = "cdp_get_result" => lanes_written = 2 * LOGISTIC_INPUT_SIZE
        /\ pc \in {"full", "partial", "raw", "self1", "self2"} =>
               /\ lanes_written = 2 * LOGISTIC_INPUT_SIZE
               /\ chunk_result = Low32(ExactSum(chunk_inputs, chunk_weights, 1,
                                                LOGISTIC_INPUT_SIZE))
        /\ Returned("self_test") => ret.code = 0

\* C6 witness: the self test passed on a unit whose lanes held all-ones words,
\* its last check reading 0 for the all-zero inputs.
SelfTestPassedOverGarbage ==
    /\ Returned("self_test")
    /\ ret.code = 0 /\ ret.value = BigZero
    /\ chunk_inputs = SelfTestZeros
    /\ input_regs = SelfTestZeros /\ weight_regs = SelfTestWeights

NeverDone == unit = "Busy" /\ hw_mode = "stuck"

\* C7: a step of logistic_start_inference on an initialized context writes the
\* start register only when the unit is Ready or Done, and then returns OK with
\* the unit Busy; with the unit not Ready/Done it returns Busy and writes
\* nothing.
StartInferenceBusyOrStarts ==
    [][(op = "start_inference" /\ ctx_initialized) =>
        /\ start_writes' # start_writes => (unit \in {"Ready", "Done"} /\ op' = "none")
        /\ op' = "none" =>
               IF unit \in {"Ready", "Done"}
               THEN hs_ret'.status = "OK" /\ start_writes' = start_writes + 1
                    /\ unit' = "Busy"
               ELSE hs_ret'.status = "BUSY" /\ start_writes' = start_writes
                    /\ unit' = unit]_vars

\* C7 witness: after logistic_init on an idle unit the start returned OK, wrote
\* the start register once and left the unit Busy.
StartedAfterInit ==
    /\ op = "none" /\ ctx_initialized
    /\ hs_ret = [fn |-> "start_inference", status |-> "OK"]
    /\ start_writes = 1
    /\ unit = "Busy"

\* C8: logistic_wait_done on an initialized context returns OK only when its
\* last completion poll read done set, and Timeout only when that poll read
\* done clear and the time elapsed since entry, the difference modulo 2^32 of
\* two get_time_ms readings, is the true number of ticks and exceeds
\* ctx->timeout_ms.
WaitDoneOkOrTimedOut ==
    [][(op = "wait_done" /\ op' = "none" /\ ctx_initialized) =>
        IF hs_ret'.status = "OK"
        THEN observed_done' /\ polls' >= 1
        ELSE /\ hs_ret'.status = "TIMEOUT"
             /\ ~observed_done' /\ polls' >= 1
             /\ elapsed' = FromInt(time_reads' - 1)
             /\ time_reads' - 1 > ctx_timeout_ms]_vars

\* C8 witness: a wait entered just before the tick counter wrapped timed out
\* after it wrapped.
TimedOutAcrossWrap ==
    /\ op = "none"
    /\ hs_ret = [fn |-> "wait_done", status |-> "TIMEOUT"]
    /\ start_time[1] = Half - 1
    /\ BigLess(system_time_ms, start_time)
    /\ ~observed_done

\* C9 (as claimed): a blocking compute operation that has been entered
\* returns to its caller, whatever the unit does.
BlockingComputeReturns ==
    (op \in {"inference", "compute_fixed"}) ~> (op = "none")

BlockingOperandWrite ==
    \/ op = "inference" /\ pc = "inference_set" /\ pc' = "start_check"
    \/ op = "compute_fixed" /\ pc = "write_start" /\ pc' = "done_test"
BlockingStartWrite ==
    \/ op = "inference" /\ pc = "start_write" /\ pc' = "wait_enter"
    \/ op = "compute_fixed" /\ pc = "write_start" /\ pc' = "done_test"
BlockingResultRead ==
    \/ op = "inference" /\ pc = "get_result" /\ op' = "none"
    \/ op = "compute_fixed" /\ pc = "result_read" /\ op' = "none"

\* C11 (as claimed): a blocking inference writes its operands and the start
\* register only while the unit is not Busy, and reads the result register
\* only when the unit is Done after that start.
OperandsAndStartOnlyWhenReady ==
    [][/\ (BlockingOperandWrite \/ BlockingStartWrite) => unit # "Busy"
       /\ BlockingResultRead =>
              (unit = "Done" /\ (op = "inference" => observed_done))]_vars

\* C11 (amended): a blocking inference writes the start register only while
\* the unit is not Busy, making it Busy, and reads the result register only
\* when the unit is Done after that start, making it Ready; logistic_inference
\* writes its operands before it tests the unit, Busy or not.
StartOnlyWhenReadyReadAfterDone ==
    [][/\ BlockingStartWrite => (unit # "Busy" /\ unit' = "Busy")
       /\ BlockingResultRead =>
              /\ unit = "Done" /\ unit' = "Ready"
              /\ op = "inference" => observed_done]_vars

\* C11 witness: logistic_inference has started the unit once, seen it done,
\* read the result and returned OK, leaving the unit Ready.
BlockingInferenceCompleted ==
    /\ op = "none" /\ hs_ret = [fn |-> "inference", status |-> "OK"]
    /\ start_writes = 1 /\ observed_done
    /\ unit = "Ready" /\ result = output_reg

\* C12 (as claimed): when an init or reset of a build with an accelerator has
\* returned, it has reported success and every input lane and every weight
\* lane reads zero.
InitAndResetClearLanes ==
    /\ (op = "none" /\ ret.fn \in {"logistic_init", "dot_product_accel_init"}
            /\ driver # "dpa_sw") =>
           (ret.code = 0 /\ input_regs = ZeroLanes /\ weight_regs = ZeroLanes)
    /\ (op = "none" /\ hs_ret.fn \in {"init", "reset"}) =>
           (hs_ret.status = "OK" /\ input_regs = ZeroLanes /\ weight_regs = ZeroLanes)

\* C13: when dot_product_accel_set_inputs or dot_product_accel_set_weights has
\* returned in the build with the accelerator, whatever count it was passed,
\* lane i holds the encoding of element i for i below min(count, LaneWidth) and
\* zero for every other lane, and no element at index LaneWidth or above, nor
\* at index count or above, was read.
SetterWritesEveryLane ==
    (op = "none" /\ driver = "dpa_hw" /\ ret.fn \in {"set_inputs", "set_weights"}) =>
        LET values == IF ret.fn = "set_inputs" THEN inputs ELSE weights
            lanes == IF ret.fn = "set_inputs" THEN input_regs ELSE weight_regs
        IN  /\ Len(lanes) = lane_width
            /\ \A i \in 1..lane_width :
                   lanes[i] = IF i <= ret.size
                              THEN Low32(FromInt(double_to_fixed(
                                       DoubleOf(values[i]), FIXED_POINT_FRACTIONAL_BITS)))
                              ELSE BigZero
            /\ read_extent <= lane_width
            /\ read_extent <= (IF ret.size > 0 THEN ret.size ELSE 0)

\* C13 witness: a setter passed more than LaneWidth elements over lanes that
\* held all-ones words has filled every lane from the first LaneWidth elements.
SetterClampedCount ==
    /\ op = "none" /\ driver = "dpa_hw" /\ ret.fn = "set_inputs"
    /\ ret.size > lane_width
    /\ read_extent = lane_width
    /\ input_regs[lane_width] # BigZero
    /\ weight_regs = [i \in 1..lane_width |-> <<Half - 1, Half - 1>>]

\* what the caller receives from an entry point: the int a chunk engine
\* returns, the value a predictor or dot_product_accel_dot_product returns
Received(r) == IF r.fn \in ProcessOps THEN r.code ELSE r.value
CheckedFns == ProcessOps \union PredictOps \union {"dot_product"}
InvalidArguments == absent # {} \/ (elem_type = "float" /\ scale_factor = 0)

\* C14 (as claimed): when a chunked entry point or predictor called with an
\* array absent or a zero scale factor has returned, what it returned differs
\* from what the valid call before it returned, no lane register was written
\* and the caller's accumulator is as the caller set it.
InvalidArgumentsToldApart ==
    (op = "none" /\ ret.fn \in CheckedFns /\ InvalidArguments) =>
        /\ first.fn = ret.fn => Received(ret) # Received(first)
        /\ lanes_written = 0
        /\ invocations = 0
        /\ ret.fn \in ProcessOps => accumulator = BigZero

EngineOps == ProcessOps \union {"dot_product"}

\* C15: no step of logistic_process_chunks, logistic_process_chunks_float or
\* dot_product_accel_dot_product changes an element of the caller's inputs or
\* weights, and none reads an element at index size or above, whatever the
\* size.
EngineOnlyReadsItsArrays ==
    [][(op \in EngineOps /\ absent = {}) =>
           /\ inputs' = inputs
           /\ weights' = weights
           /\ read_extent' <= data_size
           /\ Len(inputs') = data_size /\ Len(weights') = data_size]_vars

\* C15 witness: logistic_process_chunks_float has returned from a run that
\* ended in a short final chunk, having read every element it was passed.
ShortFinalChunkRead ==
    /\ op = "none" /\ ret.fn = "process_chunks_float" /\ absent = {}
    /\ ret.size > LOGISTIC_INPUT_SIZE /\ ret.size % LOGISTIC_INPUT_SIZE # 0
    /\ ret.code = ChunksOf(ret.size)
    /\ read_extent = data_size

\* a real as a signed count of units of 2^-den
SignedUnits(x, den) ==
    LET units == BigMul(x.mag, FromInt(2^(den - x.den)))
    IN  IF x.neg THEN BigNeg(units) ELSE units

EncodedSigned ==
    IF op = "float_to_fixed" THEN SignExt32(codec_fixed) ELSE
    IF codec_fixed < 0 THEN BigNeg(FromInt(-codec_fixed)) ELSE FromInt(codec_fixed)
\* |x| * multiplier as a count of EncodedUnit: the multiplier is 2^codec_bits
\* for double_to_fixed and FLOAT_TO_FIXED, the scale factor for float_to_fixed
ExactMagnitude ==
    IF op = "float_to_fixed" THEN BigMul(codec_value.mag, FromInt(codec_bits))
    ELSE codec_value.mag
EncodedUnit ==
    IF op = "float_to_fixed" THEN FromInt(2^codec_value.den)
    ELSE FromInt(2^(codec_value.den - codec_bits))
TruncatesTowardZero ==
    /\ EncodedSigned[1] < 0 => codec_value.neg
    /\ BigLess(BigZero, EncodedSigned) => ~codec_value.neg
    /\ BigLeq(BigMul(BigAbs(EncodedSigned), EncodedUnit), ExactMagnitude)
    /\ BigLess(ExactMagnitude,
               BigMul(BigAdd(BigAbs(EncodedSigned), FromInt(1)), EncodedUnit))

\* C17: the word returned by double_to_fixed, FLOAT_TO_FIXED and float_to_fixed
\* is the value times the multiplier with its fraction dropped: it has the
\* sign of the value, and its magnitude is the largest integer not above the
\* magnitude of the exact product.
EncodeTruncatesTowardZero == pc = "encoded" => TruncatesTowardZero

\* how far logistic_inference has come: set operands, start, wait, read result
InferenceRank(at) ==
    CASE at = "inference_set" -> 0
      [] at = "start_check" -> 1
      [] at = "start_write" -> 2
      [] at = "wait_enter" -> 3
      [] at \in {"wait_poll", "wait_time"} -> 4
      [] at = "get_result" -> 5
      [] OTHER -> 6
\* the status logistic_inference returns when it returns from the step at
InferenceStatusAt(at) ==
    CASE at = "inference_set" -> "INVALID_PARAM"
      [] at = "start_check" -> "BUSY"
      [] at = "wait_time" -> "TIMEOUT"
      [] at = "get_result" -> "OK"
      [] OTHER -> "NONE"

\* C18: logistic_inference never goes back to an earlier step: it sets the
\* operands, starts, waits and reads the result in that order; the operand
\* registers are written only by the first step, the start register at most
\* once (by the start step, which is never re-entered); it returns from the
\* step that failed with that step's status (Busy from start, Timeout from
\* wait) and OK only from the result read; *result and the result register
\* are touched only by the result read, after every earlier step passed.
InferenceRunsStepsOnceInOrder ==
    [][op = "inference" =>
        /\ InferenceRank(pc') >= InferenceRank(pc)
        /\ pc' # pc /\ pc \notin {"wait_poll", "wait_time"} =>
               InferenceRank(pc') > InferenceRank(pc)
        /\ <<input_regs, weight_regs, bias_reg>>' # <<input_regs, weight_regs, bias_reg>> =>
               pc = "inference_set" /\ pc' = "start_check"
        /\ start_writes' # start_writes =>
               /\ pc = "start_write" /\ pc' = "wait_enter"
               /\ start_writes' = start_writes + 1
        /\ pc = "start_check" /\ pc' = "start_write" => DoneRead
        /\ pc' = "get_result" /\ pc # pc' => pc = "wait_poll" /\ observed_done'
        /\ op' = "none" =>
               /\ pc' = "idle"
               /\ hs_ret' = [fn |-> "inference", status |-> InferenceStatusAt(pc)]
               /\ start_writes' = start_writes
        /\ op' # "none" => op' = "inference" /\ hs_ret' = hs_ret
        /\ (result' # result \/ (unit = "Done" /\ unit' = "Ready")) =>
               /\ pc = "get_result" /\ op' = "none"
               /\ result' = output_reg
    ]_vars

\* C18 witness: logistic_inference has returned Timeout: the unit it started
\* once is still busy and the result cell holds what it held before.
InferenceTimedOutUnread ==
    /\ op = "none" /\ pc = "idle"
    /\ hs_ret = [fn |-> "inference", status |-> "TIMEOUT"]
    /\ start_writes = 1
    /\ unit = "Busy"
    /\ result = BigZero

\* the result the unit computes from the lanes x, w and the bias b
ResultOf(x, w, b) ==
    Low32(BigAdd(LaneSum(x, w, 1, lane_width), Low32(FromInt(b))))
\* the running caller's call has returned a result, and the result
HasResult ==
    \/ driver = "logistic" /\ op = "none" /\ ret.fn = "compute_dot_product"
    \/ driver = "iris" /\ op = "none" /\ hs_ret = [fn |-> "inference", status |-> "OK"]
ReceivedResult == IF driver = "logistic" THEN ret.value ELSE result

\* C19: a caller that has the accelerator to itself is returned, by
\* logistic_compute_dot_product and by logistic_inference, the result of the
\* operands of that call; when two callers share it, a returned result is the
\* result of input lanes, weight lanes and a bias each written by one of the
\* two callers, not necessarily the one that receives it.
ResultFromOwnOperandsWhenAlone ==
    HasResult =>
        /\ callers = 1 => ReceivedResult = ResultOf(inputs, weights, bias)
        /\ callers = 2 =>
               \E x \in {Context, suspended}, y \in {Context, suspended},
                  z \in {Context, suspended} :
                   ReceivedResult = ResultOf(x.inputs, y.weights, z.bias)

\* C19 witness: of two callers of logistic_compute_dot_product, the running
\* one has been returned the result of the other's lanes, which is not the
\* result of its own operands.
CallerReceivedOthersResult ==
    /\ callers = 2 /\ driver = "logistic" /\ HasResult
    /\ ReceivedResult = ResultOf(suspended.inputs, suspended.weights, suspended.bias)
    /\ ReceivedResult # ResultOf(inputs, weights, bias)

\* the step that adds a chunk result read from the result register
LogisticAccumulates ==
    op \in {"process_chunks", "predict_large"} /\ pc \in {"full", "partial"}
DotProductAccumulates ==
    op = "dot_product" /\ AccelAvailable /\ pc \in {"dp_full", "dp_remainder"}

WordMax == <<Half - 1, Half - 1>>
Headroom(k) == BigMul(FromInt(k), WordMax)
\* a * b of two 32-bit words as <<high word, low word>>
Mul32Wide(a, b) ==
    LET mid == BigAdd(Mul16(a[2], b[1]), Mul16(a[1], b[2]))
        low == BigAdd(Mul16(a[2], b[2]), <<mid[2], 0>>)
    IN  <<BigAdd(Mul16(a[1], b[1]), FromInt(mid[1] + (low[1] \div Half))), Low32(low)>>
\* a 64-bit <<high, low>> plus a 32-bit word
Add64(x, w) ==
    LET low == BigAdd(x[2], w)
    IN  <<BigAdd(x[1], FromInt(low[1] \div Half)), Low32(low)>>
\* 2^31 - 1 chunks of WordMax each, plus the largest int32 bias, is below 2^63
LargestChunkCount == <<Half \div 2 - 1, Half - 1>>
WorstCaseFitsInt64 ==
    LET sum == Add64(Mul32Wide(LargestChunkCount, WordMax), LargestChunkCount)
    IN  IsWord(sum[1]) /\ sum[1][1] < Half \div 2

\* C21: starting from 0, the accumulator of logistic_process_chunks after k
\* chunks is between 0 and k * (2^32 - 1), the total of
\* dot_product_accel_dot_product after k chunk computations is at most that
\* in magnitude, the value logistic_predict_large_dataset returns lies within
\* an int32 of its accumulator, and 2^31 - 1 chunks of the largest word plus
\* the largest bias stay below 2^63.
AccumulatorWithinHeadroom ==
    /\ op \in {"process_chunks", "predict_large"} =>
           /\ BigLeq(BigZero, Pointee)
           /\ BigLeq(Pointee, Headroom(chunks_processed))
    /\ op = "dot_product" => BigLeq(BigAbs(total_result), Headroom(invocations))
    /\ (op = "none" /\ ret.fn = "predict_large") =>
           /\ BigLeq(FromInt(-(2^30) - (2^30)), ret.value)
           /\ BigLeq(ret.value, BigAdd(Headroom(ret.code), FromInt(2^30 - 1 + 2^30)))
    /\ WorstCaseFitsInt64

\* C21 witness: logistic_process_chunks has returned after three chunks with
\* an accumulator that no longer fits in 32 bits.
AccumulatorPastOneWord ==
    /\ op = "none" /\ ret.fn = "process_chunks"
    /\ ret.code = 3
    /\ BigLess(WordMax, ret.value)

\* C22: when logistic_get_result, called on its own with an initialized
\* context, returns, it returns OK and the result cell holds what the output
\* register held, whatever the state of the unit; the done bit, the output
\* register, the operand and bias registers and the start count are as before.
GetResultReadsUnchecked ==
    [][(op = "get_result" /\ op' = "none" /\ ctx_initialized) =>
        /\ hs_ret' = [fn |-> "get_result", status |-> "OK"]
        /\ result' = output_reg
        /\ DoneRead' = DoneRead
        /\ UNCHANGED <<input_regs, weight_regs, bias_reg, output_reg, start_writes>>
    ]_vars

\* C22 witness: logistic_get_result has returned OK on a unit that was busy
\* throughout and that this caller never started.
GetResultReturnedWhileBusy ==
    /\ op = "none" /\ hs_ret = [fn |-> "get_result", status |-> "OK"]
    /\ ctx_initialized
    /\ unit = "Busy" /\ start_writes = 0
    /\ result = output_reg

\* ---------------------------------------------------------------------------
\* C23: an indexed single-lane write is the direct write of that lane: for an
\* index below the lane count, logistic_set_input(i, v) and
\* logistic_set_weight(i, v) (and the 64-lane register writers) leave the
\* bank as the direct path leaves it when it stores v in lane i, with every
\* other lane word unchanged, and for an index at or past the lane count no
\* register is written.
\* ---------------------------------------------------------------------------
DirectLaneWrite(regs, i, v) == [regs EXCEPT ![i + 1] = v]

LaneWriters == {"logistic_set_input", "logistic_set_weight",
                "logistic_write_input_data_reg", "logistic_write_weight_reg"}

WritesInputBank(fn) == fn \in {"logistic_set_input", "logistic_write_input_data_reg"}

IndexedWriteIsDirectWrite ==
    [][(calls_left' = calls_left - 1 /\ ret'.fn \in LaneWriters) =>
          LET i == ret'.size
              v == ret'.value
              old == IF WritesInputBank(ret'.fn) THEN input_regs ELSE weight_regs
              new == IF WritesInputBank(ret'.fn) THEN input_regs' ELSE weight_regs'
          IN  /\ new = (IF i < lane_width THEN DirectLaneWrite(old, i, v) ELSE old)
              /\ WritesInputBank(ret'.fn) => weight_regs' = weight_regs
              /\ ~WritesInputBank(ret'.fn) => input_regs' = input_regs]_vars

\* ---------------------------------------------------------------------------
\* C25: the indexed register accessors of the 64-lane driver return
\* LOGISTIC_ERROR_INVALID_PARAM and access no register when the index is 64
\* or more (or the output pointer is absent); for an index in 0..63 they
\* access exactly the word of that lane and return LOGISTIC_OK, so a read
\* after a write of the same index returns the written value and the other
\* lanes are untouched.
\* ---------------------------------------------------------------------------
RegWriters == {"logistic_write_input_data_reg", "logistic_write_weight_reg"}

RegReaders == {"logistic_read_input_data_reg", "logistic_read_weight_reg"}

InputAccessors == {"logistic_write_input_data_reg", "logistic_read_input_data_reg"}

BankName(fn) == IF fn \in InputAccessors THEN "input" ELSE "weight"

BankOf(fn, in, wt) == IF fn \in InputAccessors THEN in ELSE wt

AccessorsCheckIndex ==
    [][(calls_left' = calls_left - 1 /\ ret'.fn \in RegWriters \cup RegReaders) =>
          LET fn == ret'.fn
              index == ret'.size
              old == BankOf(fn, input_regs, weight_regs)
              new == BankOf(fn, input_regs', weight_regs')
              other == BankOf(fn, weight_regs, input_regs)
              other_new == BankOf(fn, weight_regs', input_regs')
          IN  /\ other_new = other
              /\ IF index >= 64 \/ (fn \in RegReaders /\ "value" \in absent')
                 THEN /\ ret'.code = -2
                      /\ csr_accesses' = <<>>
                      /\ new = old
                      /\ result' = result
                 ELSE /\ ret'.code = 0
                      /\ IF fn \in RegWriters
                         THEN /\ csr_accesses' = <<Access("write", BankName(fn), index)>>
                              /\ new = DirectLaneWrite(old, index, ret'.value)
                              /\ result' = result
                         ELSE /\ csr_accesses' = <<Access("read", BankName(fn), index)>>
                              /\ new = old
                              /\ result' = old[index + 1]
                              /\ (/\ ret.fn \in RegWriters
                                  /\ BankName(ret.fn) = BankName(fn)
                                  /\ ret.size = index
                                  /\ ret.code = 0) => result' = ret.value]_vars

ReadBackLastLane ==
    /\ ret = [fn |-> "logistic_read_input_data_reg", build |-> "iris", size |-> 63,
              code |-> 0, value |-> FromInt(7)]
    /\ result = FromInt(7)
    /\ input_regs = DirectLaneWrite(LaneMarks(64, 100), 63, FromInt(7))
    /\ weight_regs = LaneMarks(64, 200)
    /\ csr_accesses = <<Access("read", "input", 63)>>

\* ---------------------------------------------------------------------------
\* C24: logistic_process_chunks adds to the caller's accumulator and never
\* resets it: during a call the accumulator changes only by the addition of a
\* chunk result, so a vector processed in successive batches of whole lanes
\* (the last batch taking what is left) with one running accumulator ends with
\* the accumulator and the total chunk count of one call on the whole vector.
\* ---------------------------------------------------------------------------
StreamFinished ==
    /\ op = "none" /\ ~stream_pending
    /\ consumed > 0 /\ consumed = Len(stream_inputs)

BatchesEqualOneCall ==
    [][/\ (op = "process_chunks" /\ stream_pending) =>
             accumulator' = (IF pc \in {"full", "partial"}
                             THEN BigAdd(accumulator, ZeroExt32(chunk_result))
                             ELSE accumulator)
       /\ StreamFinished' =>
             /\ accumulator' = first.value
             /\ stream_chunks' = first.code]_vars

StreamedInSeveralBatches ==
    /\ StreamFinished
    /\ ret.code < stream_chunks
    /\ stream_chunks = first.code
    /\ accumulator = first.value
    /\ BigLess(ret.value, BigAdd(ret.value, accumulator))
    /\ BigLess(<<Half - 1, Half - 1>>, accumulator)

\* ---------------------------------------------------------------------------
\* C26: whenever logistic_inference returns LOGISTIC_OK, *result is the output
\* of the computation its own start write began, never an output left by an
\* earlier computation, for every interleaving of the done polls with the
\* steps of the unit.  InferenceReturnsOwnOutput states it for every unit,
\* one that lowers done some steps after the start write included;
\* InferenceReturnsOwnOutputOnPromptUnit for a unit that lowers done in the
\* step of the start write.
\* ---------------------------------------------------------------------------
OwnOutput == Low32(BigAdd(ResultRegister, bias_reg))

InferenceReturnedOk ==
    op = "inference" /\ op' = "none" /\ hs_ret'.status = "OK"

Untouched ==
    UNCHANGED <<regVars, bias_reg, output_reg, start_writes, unit, result, system_time_ms>>

RefusedWithoutContext ==
    [][/\ (~CtxUsable /\ op \in GuardedOps /\ pc' # pc) =>
             /\ op' = "none"
             /\ hs_ret' = [fn |-> op, status |-> "INVALID_PARAM"]
             /\ Untouched
       /\ (~CtxUsable /\ op = "none" /\ calls_left' < calls_left
                      /\ op' \in GuardedOps \cup {"none"}) =>
             /\ Untouched
             /\ (op' = "none" /\ hs_ret'.fn \in GuardedOps) =>
                    hs_ret'.status = Refusal(hs_ret'.fn)
       /\ ctx_initialized => ctx_initialized']_vars

InferenceRefusedBeforeInit ==
    /\ op = "none" /\ ~ctx_initialized /\ ~CtxNull
    /\ hs_ret = [fn |-> "inference", status |-> "INVALID_PARAM"]
    /\ calls_left = 0
    /\ unit = "Ready" /\ start_writes = 0
    /\ input_regs \in Garbage(lane_width) /\ result = BigZero

\* ---------------------------------------------------------------------------
\* C28: logistic_reset, and logistic_init through it, on a non-null context
\* always terminates and returns LOGISTIC_OK after at most 100 completion
\* polls, even when the unit never reports done; it writes no accelerator
\* register, so a Busy unit may still be Busy on return and a following start
\* can fail with Busy.
\* ---------------------------------------------------------------------------
InReset == op \in {"reset", "init"} /\ ~CtxNull

\* the polls logistic_reset has made when it returns: one per tick the loop
\* has read, and the poll that saw done
ResetPollsAtReturn ==
    IF CtxUsable /\ DoneRead
    THEN ToInt(Elapsed(system_time_ms, start_time))
    ELSE ToInt(Elapsed(system_time_ms', start_time)) - 1

ResetStepTaken == pc' # pc \/ system_time_ms' # system_time_ms

ResetAlwaysReturnsOk ==
    /\ [][InReset =>
             /\ UNCHANGED <<regVars, bias_reg, start_writes>>
             /\ ResetStepTaken => UNCHANGED <<unit, output_reg>>
             /\ op' = "none" =>
                    /\ hs_ret' = [fn |-> op, status |-> "OK"]
                    /\ ResetPollsAtReturn <= ResetWaitMs]_vars
    /\ InReset ~> (op = "none" /\ hs_ret.status = "OK")

StartBusyAfterInit ==
    /\ op = "none" /\ ctx_initialized
    /\ hs_ret = [fn |-> "start_inference", status |-> "BUSY"]
    /\ unit = "Busy" /\ start_writes = 0
    /\ Elapsed(system_time_ms, start_time) = FromInt(ResetWaitMs + 1)

\* ---------------------------------------------------------------------------
\* C29: readstr keeps its write index ptr within 0..63 and stores nowhere
\* outside the 64-byte buffer; a backspace at ptr = 0 changes nothing; a
\* character arriving when 63 are stored is dropped; on CR or LF the returned
\* string is NUL-terminated at the current index and ptr returns to 0.
\* ---------------------------------------------------------------------------
KeyTaken == calls_left' = calls_left - 1

LineBufferKept ==
    /\ [](readstr_ptr \in 0..63 /\ readstr_wrote \subseteq 0..63)
    /\ [][KeyTaken =>
             LET c == readstr_ret'.key
             IN  /\ (c \in {127, 8} /\ readstr_ptr = 0) =>
                        /\ UNCHANGED <<readstr_s, readstr_ptr>>
                        /\ readstr_ret'.null
                 /\ (c \in {97, 98} /\ readstr_ptr = 63) =>
                        /\ UNCHANGED <<readstr_s, readstr_ptr>>
                        /\ readstr_ret'.null
                 /\ (c \in {97, 98} /\ readstr_ptr < 63) =>
                        /\ readstr_s' = [readstr_s EXCEPT ![readstr_ptr + 1] = c]
                        /\ readstr_ptr' = readstr_ptr + 1
                 /\ (c \in {13, 10}) =>
                        /\ ~readstr_ret'.null
                        /\ readstr_s'[readstr_ptr + 1] = 0
                        /\ readstr_ret'.line = SubSeq(readstr_s, 1, Len(readstr_ret'.line))
                        /\ Len(readstr_ret'.line) <= readstr_ptr
                        /\ \A i \in 1..Len(readstr_ret'.line) : readstr_ret'.line[i] # 0
                        /\ readstr_ptr' = 0]_vars

FullLineReturned ==
    /\ readstr_ret = [key |-> 13, null |-> FALSE, line |-> [i \in 1..63 |-> 97]]
    /\ readstr_ptr = 0
    /\ readstr_wrote = {63}
    /\ readstr_s[64] = 0
    /\ calls_left = 0

\* ---------------------------------------------------------------------------
\* C30: the stopwatch loads timer0 with 0xffffffff counting down; after
\* start_stopwatch and then stop_stopwatch, elapsed_ticks =
\* (start_ticks - end_ticks) mod 2^32 is the number of ticks that passed
\* whenever fewer than 2^32 passed, also across a wrap of the counter, and
\* get_elapsed_ticks keeps returning that value until the next stop_stopwatch.
\* ---------------------------------------------------------------------------
Ran(fn) ==
    /\ sw_pc = "idle" /\ sw_pc' = "idle"
    /\ calls_left' = calls_left - 1
    /\ timer0_value' = timer0_value
    /\ sw_ret'.fn = fn

WithinOnePeriod == BigLess(ticks_passed, <<Half, 0>>)

StopwatchMeasuresTicks ==
    [][/\ (sw_pc = "idle" /\ sw_pc' = "enabled") =>
             timer0_en' = 1 /\ timer0_value' = <<Half - 1, Half - 1>>
       /\ (Ran("stop_stopwatch") /\ timer0_en = 1 /\ WithinOnePeriod) =>
             /\ elapsed_ticks' = ticks_passed
             /\ elapsed_ticks' = Low32(BigSub(start_ticks, timer0_value))
       /\ Ran("get_elapsed_ticks") =>
             sw_ret'.value = elapsed_ticks /\ elapsed_ticks' = elapsed_ticks
       /\ elapsed_ticks' # elapsed_ticks => Ran("stop_stopwatch")]_vars

ReadAfterWrappedMeasurement ==
    /\ sw_ret = [fn |-> "get_elapsed_ticks", value |-> elapsed_ticks]
    /\ elapsed_ticks = ticks_passed
    /\ WithinOnePeriod
    /\ BigLess(start_ticks, timer0_value)
    /\ BigLess(<<Half \div 2, 0>>, elapsed_ticks)

====
